---- MODULE Spec2Model ----
(***************************************************************************)
(* A model of the LXD host-device attachment engine (unix devices), the    *)
(* generated entity mappers of the cluster database (instances,            *)
(* certificates, devices) and their filter dispatch.                       *)
(*                                                                         *)
(* Strings the code takes apart (file names, paths, device names) are      *)
(* sequences of one-character strings, so that HasPrefix, LastIndex and    *)
(* the path encoding are computed as the code computes them.               *)
(***************************************************************************)
EXTENDS Integers, Sequences, FiniteSets, TLC

VARIABLES
    files,      \* the devices directory: the host files in it
    userNS,     \* s.OS.RunningInUserNS
    runConf,    \* the RunConfig handed to the last Setup/Remove call
    last,       \* the last device-engine call: its arguments and result
    filter,     \* the filter handed to the last GetMany call
    picked,     \* what the last GetMany call selected
    db,         \* the cluster database tables
    dbLast,     \* the last entity-store call: its arguments and result
    warnings,   \* the warnings table, the clock and the UUID source
    warnLast,   \* the last warnings call: its arguments and result
    hosts,      \* the dnsmasq.hosts directory of the network: its files
    dhcpLast,   \* the last static-allocation call: its arguments and result
    clusterConf, \* the cluster configuration, in memory and in the config table
    confLast,   \* the last cluster-configuration call, its arguments and result
    procs,      \* how far each of two sibling devices has got, Setup to DeleteFiles
    lock        \* the lock of the devices directory, whether callers take it and who holds it

vars == <<files, userNS, runConf, last, filter, picked, db, dbLast,
          warnings, warnLast, hosts, dhcpLast,
          clusterConf, confLast,
          procs, lock>>
devVars == <<files, userNS, runConf, last>>
filterVars == <<filter, picked>>
dbVars == <<db, dbLast>>
warnVars == <<warnings, warnLast>>
dhcpVars == <<hosts, dhcpLast>>
confVars == <<clusterConf, confLast>>
sibVars == <<procs, lock>>

(***************************************************************************)
(* Bounds of the model.                                                    *)
(***************************************************************************)
MaxFiles == 2       \* host files in the devices directory
MaxRows == 2        \* rows ever inserted into the parent tables of the database
MaxClock == 3       \* writes to the warnings table (each one reads the clock)

(***************************************************************************)
(* Strings.                                                                *)
(***************************************************************************)
\* The characters used, in byte order (os.ReadDir sorts by file name).
Alphabet == <<"-", ".", "/", "a", "b", "d", "i", "n", "u", "x", "y">>

Ord(c) == CHOOSE i \in 1..Len(Alphabet) : Alphabet[i] = c

\* s < t in byte order.
StrLess(s, t) ==
    \E k \in 1..(Len(t)) :
        /\ \A j \in 1..(k - 1) : j <= Len(s) /\ s[j] = t[j]
        /\ \/ Len(s) = k - 1
           \/ Len(s) >= k /\ Ord(s[k]) < Ord(t[k])

HasPrefix(s, prefix) ==
    /\ Len(prefix) <= Len(s)
    /\ SubSeq(s, 1, Len(prefix)) = prefix

TrimPrefix(s, prefix) ==
    IF HasPrefix(s, prefix) THEN SubSeq(s, Len(prefix) + 1, Len(s)) ELSE s

\* strings.LastIndex for a one-character separator; 0 stands for Go's -1.
LastIndex(s, c) ==
    IF \E i \in 1..Len(s) : s[i] = c
    THEN CHOOSE i \in 1..Len(s) : s[i] = c /\ \A j \in (i + 1)..Len(s) : s[j] # c
    ELSE 0

\* The part of a file name after its last "." (devName[idx+1:]).
AfterLastDot(devName) == SubSeq(devName, LastIndex(devName, ".") + 1, Len(devName))

RECURSIVE deviceJoinPath(_)
deviceJoinPath(parts) ==
    IF Len(parts) = 0 THEN <<>>
    ELSE IF Len(parts) = 1 THEN parts[1]
    ELSE parts[1] \o <<".">> \o deviceJoinPath(Tail(parts))

\* "-" becomes "--", then "/" becomes "-"; every other character, "."
\* included, is kept: UnixDeviceCreate encodes the joined name as a whole and
\* Setup and Remove split the encoded name on its last ".".
RECURSIVE PathNameEncode(_)
PathNameEncode(text) ==
    IF text = <<>> THEN <<>>
    ELSE (CASE Head(text) = "-" -> <<"-", "-">>
            [] Head(text) = "/" -> <<"-">>
            [] OTHER -> <<Head(text)>>) \o PathNameEncode(Tail(text))

\* "--" back to "-", a single "-" back to "/".
RECURSIVE PathNameDecode(_)
PathNameDecode(text) ==
    IF text = <<>> THEN <<>>
    ELSE IF Len(text) >= 2 /\ text[1] = "-" /\ text[2] = "-"
         THEN <<"-">> \o PathNameDecode(SubSeq(text, 3, Len(text)))
    ELSE IF text[1] = "-"
         THEN <<"/">> \o PathNameDecode(Tail(text))
    ELSE <<text[1]>> \o PathNameDecode(Tail(text))

\* os.ReadDir: the names of a directory, sorted by file name.
RECURSIVE SortNames(_)
SortNames(S) ==
    IF S = {} THEN <<>>
    ELSE LET m == CHOOSE x \in S : \A y \in S \ {x} : StrLess(x, y)
         IN <<m>> \o SortNames(S \ {m})

(***************************************************************************)
(* The host-device attachment engine.                                      *)
(***************************************************************************)
TypePrefix == <<"u", "n", "i", "x">>

\* Device names; "a" is a string prefix of "ab".
DeviceNames == {<<"a">>, <<"b">>, <<"a", "b">>}

\* Destination paths inside the instance: /d/x, /y and /d/x.y.
DestPaths == {<<"/", "d", "/", "x">>, <<"/", "y">>, <<"/", "d", "/", "x", ".", "y">>}

\* The optional file prefix of Remove and DeleteFiles: none, or "d".
OptPrefixes == {<<>>, <<"d">>}

\* Device configs: the "path", "source", "type", "major", "minor", "mode",
\* "uid", "gid" and "ownership.inherit" keys of a deviceConfig.Device.
Config(p, t, major, minor) ==
    [path |-> p, source |-> <<>>, type |-> t, major |-> major, minor |-> minor,
     mode |-> "", uid |-> "", gid |-> "", inherit |-> ""]

\* A char device for every path (major and minor taken from the host), and for
\* /d/x a block device with explicit numbers, one with major but no minor
\* and one with minor but no major.
Configs ==
    { Config(p, "unix-char", "", "") : p \in DestPaths }
    \cup { Config(<<"/", "d", "/", "x">>, "unix-block", "1", "2"),
           Config(<<"/", "d", "/", "x">>, "unix-char", "1", ""),
           Config(<<"/", "d", "/", "x">>, "unix-char", "", "2") }

\* What the host does to a call: nothing wrong, a failing stat of the source
\* device, a failing mknod (or os.Create), or a failure after the node was
\* made (chown, chmod; DiskMount in a user namespace).
IOOutcomes == {"ok", "stat", "mknod", "after"}

\* strconv.ParseUint / strconv.Atoi of the numeric strings used.
ParseNum(v) == CASE v = "1" -> 1 [] v = "2" -> 2 [] v = "3" -> 3 [] OTHER -> 0

\* unix.Stat of a source device on the host.
HostStat == [typ |-> "c", major |-> 5, minor |-> 6, uid |-> 7, gid |-> 8, mode |-> "0600"]

\* unixDeviceAttributes of a host file of the devices directory.
unixDeviceAttributes(f) ==
    IF f.typ \in {"b", "c"}
    THEN [err |-> "", typ |-> f.typ, major |-> f.major, minor |-> f.minor]
    ELSE [err |-> "Not a device", typ |-> "", major |-> 0, minor |-> 0]

unixDeviceSourcePath(m) == IF m.source = <<>> THEN m.path ELSE m.source

unixDeviceDestPath(m) == IF m.path = <<>> THEN m.source ELSE m.path

RelativeDestPath(m) == TrimPrefix(unixDeviceDestPath(m), <<"/">>)

FileNames(fs) == {f.name : f \in fs}

FileNamed(fs, n) == CHOOSE f \in fs : f.name = n

\* A check of major and minor that never objects.
MajorMinorUnchecked(m) == FALSE

\* Exactly one of "major" and "minor" is given.
OneOfMajorMinor(m) == (m.major = "") # (m.minor = "")

\* UnixDeviceCreate: the error, the device created, the devices directory
\* afterwards, and whether the call got as far as the devices directory
\* (the PathExists and Mkdir of the directory, then the node).
UnixDeviceCreate(fs, ns, prefix, m, defaultMode, io) ==
    LET nested == ns /\ (m.major # "" \/ m.minor # "" \/ m.mode # "" \/ m.uid # "" \/ m.gid # "")
        statMajMin == m.major = "" /\ m.minor = ""
        oneOfMajMin == OneOfMajorMinor(m)
        major == IF statMajMin THEN HostStat.major ELSE ParseNum(m.major)
        minor == IF statMajMin THEN HostStat.minor ELSE ParseNum(m.minor)
        mode == IF m.mode # "" THEN m.mode
                ELSE IF ~defaultMode THEN HostStat.mode ELSE "0660"
        typ == IF m.type = "unix-block" THEN "b" ELSE "c"
        \* shared.IsTrue
        inherit == m.inherit \in {"true", "1", "yes", "on"}
        \* strconv.Atoi fails on what is not a number
        badUID == ~inherit /\ m.uid # "" /\ m.uid \notin {"1", "2", "3"}
        badGID == ~inherit /\ m.gid # "" /\ m.gid \notin {"1", "2", "3"}
        statOwner == inherit /\ (m.uid = "" \/ m.gid = "")
        uid == IF inherit THEN (IF m.uid = "" THEN HostStat.uid ELSE 0)
               ELSE (IF m.uid # "" THEN ParseNum(m.uid) ELSE 0)
        gid == IF inherit THEN (IF m.gid = "" THEN HostStat.gid ELSE 0)
               ELSE (IF m.gid # "" THEN ParseNum(m.gid) ELSE 0)
        rel == RelativeDestPath(m)
        devName == PathNameEncode(deviceJoinPath(<<prefix, rel>>))
        d == [HostPath |-> devName, RelativePath |-> rel, Type |-> typ,
              Major |-> major, Minor |-> minor, Mode |-> mode, UID |-> uid, GID |-> gid]
        node == [name |-> devName, typ |-> typ, major |-> major, minor |-> minor,
                 uid |-> uid, gid |-> gid, mode |-> mode,
                 \* For the claims only: the prefix and the path the file was
                 \* created for, and whether that Create call succeeded.
                 dev |-> prefix, dest |-> rel, complete |-> TRUE]
        \* In a user namespace the file is a plain file with the source bound on it.
        plain == [node EXCEPT !.typ = "f", !.major = 0, !.minor = 0, !.complete = FALSE]
        bound == [node EXCEPT !.typ = HostStat.typ, !.major = HostStat.major,
                              !.minor = HostStat.minor]
        others == {f \in fs : f.name # devName}
        fail(e, after) == [err |-> e, d |-> d, files |-> after, touched |-> FALSE]
        failLate(e, after) == [err |-> e, d |-> d, files |-> after, touched |-> TRUE]
    IN  IF nested THEN fail("property may not be set in a nested container", fs)
        ELSE IF statMajMin /\ io = "stat" THEN fail("Failed to get device attributes", fs)
        ELSE IF oneOfMajMin THEN fail("Both major and minor must be supplied", fs)
        ELSE IF statOwner /\ io = "stat" THEN fail("Failed to retrieve host owner", fs)
        ELSE IF badUID THEN fail("Invalid UID", fs)
        ELSE IF badGID THEN fail("Invalid GID", fs)
        ELSE IF ~ns
        THEN IF devName \in FileNames(fs) \/ io = "mknod"
             THEN failLate("Failed to create device", fs)
             ELSE IF io = "after"
             THEN failLate("Failed to chown device", fs \cup {[node EXCEPT !.complete = FALSE]})
             ELSE [err |-> "", d |-> d, files |-> fs \cup {node}, touched |-> TRUE]
        ELSE IF io = "mknod" THEN failLate("Failed to create file", fs)
             ELSE IF io = "after" THEN failLate("Failed to mount", others \cup {plain})
             ELSE [err |-> "", d |-> d, files |-> others \cup {bound}, touched |-> TRUE]

\* The scan of unixDeviceSetup over the directory entries, in order:
\* "invalid" (a name without "."), "dupe" or "none".
RECURSIVE SetupScan(_, _)
SetupScan(dents, ourEncRelDestFile) ==
    IF dents = <<>> THEN "none"
    ELSE IF LastIndex(Head(dents), ".") = 0 THEN "invalid"
    ELSE IF AfterLastDot(Head(dents)) = ourEncRelDestFile THEN "dupe"
    ELSE SetupScan(Tail(dents), ourEncRelDestFile)

MountEntry(d) ==
    [DevSource |-> d.HostPath, TargetPath |-> d.RelativePath, FSType |-> "none",
     Opts |-> <<"bind", "create=file">>, OwnerShift |-> "static"]

UnmountEntry(target) ==
    [DevSource |-> <<>>, TargetPath |-> target, FSType |-> "",
     Opts |-> <<>>, OwnerShift |-> ""]

CGroupRule(key, typ, major, minor) ==
    [Key |-> key, Value |-> <<typ, major, minor, "rwm">>]

EmptyRunConf == [Mounts |-> <<>>, CGroups |-> <<>>]

\* unixDeviceSetup on a run configuration rc: the error, the directory and the
\* run configuration afterwards.
unixDeviceSetup(fs, ns, typePrefix, deviceName, m, defaultMode, io, rc) ==
    LET ourEncRelDestFile == PathNameEncode(TrimPrefix(unixDeviceDestPath(m), <<"/">>))
        scan == SetupScan(SortNames(FileNames(fs)), ourEncRelDestFile)
        ourPrefix == deviceJoinPath(<<typePrefix, deviceName>>)
        c == UnixDeviceCreate(fs, ns, ourPrefix, m, defaultMode, io)
    IN  IF scan = "invalid"
        THEN [err |-> "Invalid device name", files |-> fs, rc |-> rc, dupe |-> FALSE]
        ELSE IF c.err # ""
        THEN [err |-> c.err, files |-> c.files, rc |-> rc, dupe |-> scan = "dupe"]
        ELSE IF scan = "dupe"
        THEN [err |-> "", files |-> c.files, rc |-> rc, dupe |-> TRUE]
        ELSE [err |-> "", files |-> c.files, dupe |-> FALSE,
              rc |-> [Mounts |-> Append(rc.Mounts, MountEntry(c.d)),
                      CGroups |-> Append(rc.CGroups,
                          CGroupRule("devices.allow", c.d.Type, c.d.Major, c.d.Minor))]]

\* An existence check that looks for the path as it is, not encoded.
UnixDeviceExistsPlain(fs, prefix, path) ==
    (prefix \o <<".">> \o TrimPrefix(path, <<"/">>)) \in FileNames(fs)

\* UnixDeviceExists.
UnixDeviceExists(fs, prefix, path) ==
    LET relativeDestPath == TrimPrefix(path, <<"/">>)
        devName == PathNameEncode(prefix) \o <<".">> \o PathNameEncode(relativeDestPath)
    IN  devName \in FileNames(fs)

\* The file prefix of "our" device in Remove and DeleteFiles.
OurPrefix(typePrefix, deviceName, optPrefix) ==
    IF optPrefix # <<>>
    THEN PathNameEncode(deviceJoinPath(<<typePrefix, deviceName, optPrefix>>))
    ELSE PathNameEncode(deviceJoinPath(<<typePrefix, deviceName>>))

\* This device file belongs to our LXD device.
IsOurs(devName, ourPrefix) == HasPrefix(devName, ourPrefix)

\* The loop of unixDeviceRemove over our device files, in order.
RECURSIVE RemoveLoop(_, _, _, _)
RemoveLoop(ourDevs, encRelDevFiles, fs, rc) ==
    IF ourDevs = <<>> THEN [err |-> "", rc |-> rc]
    ELSE LET ourDev == Head(ourDevs)
             ourEncRelDestFile == AfterLastDot(ourDev)
             dupe == \E i \in 1..Len(encRelDevFiles) : encRelDevFiles[i] = ourEncRelDestFile
             withMount == [rc EXCEPT !.Mounts =
                              Append(@, UnmountEntry(PathNameDecode(ourEncRelDestFile)))]
             a == unixDeviceAttributes(FileNamed(fs, ourDev))
         IN  IF LastIndex(ourDev, ".") = 0 THEN [err |-> "Invalid device name", rc |-> rc]
             ELSE IF dupe THEN RemoveLoop(Tail(ourDevs), encRelDevFiles, fs, rc)
             ELSE IF a.err # ""
             THEN [err |-> "Failed to get UNIX device attributes", rc |-> withMount]
             ELSE RemoveLoop(Tail(ourDevs), encRelDevFiles, fs,
                     [withMount EXCEPT !.CGroups =
                         Append(@, CGroupRule("devices.deny", a.typ, a.major, a.minor))])

\* unixDeviceRemove on a run configuration rc.
unixDeviceRemove(fs, typePrefix, deviceName, optPrefix, rc) ==
    LET dents == SortNames(FileNames(fs))
        ourPrefix == OurPrefix(typePrefix, deviceName, optPrefix)
        ourDevs == SelectSeq(dents, LAMBDA n : IsOurs(n, ourPrefix))
        otherDevs == SelectSeq(dents, LAMBDA n : ~IsOurs(n, ourPrefix))
        encRelDevFiles == [i \in 1..Len(otherDevs) |-> AfterLastDot(otherDevs[i])]
    IN  IF \E i \in 1..Len(otherDevs) : LastIndex(otherDevs[i], ".") = 0
        THEN [err |-> "Invalid device name", rc |-> rc]
        ELSE RemoveLoop(ourDevs, encRelDevFiles, fs, rc)

\* A loop that goes on after a removal failed and reports it at the end.
RECURSIVE DeleteLoopContinuing(_, _, _, _)
DeleteLoopContinuing(dents, ourPrefix, fs, failName) ==
    IF dents = <<>> THEN [err |-> IF \E f \in fs : f.name = failName /\ IsOurs(f.name, ourPrefix) THEN "remove failed" ELSE "", files |-> fs]
    ELSE IF ~IsOurs(Head(dents), ourPrefix) \/ Head(dents) = failName
    THEN DeleteLoopContinuing(Tail(dents), ourPrefix, fs, failName)
    ELSE DeleteLoopContinuing(Tail(dents), ourPrefix, {f \in fs : f.name # Head(dents)}, failName)

\* The loop of unixDeviceDeleteFiles over the directory entries, in order;
\* the removal of the file named failName fails.
RECURSIVE DeleteLoop(_, _, _, _)
DeleteLoop(dents, ourPrefix, fs, failName) ==
    IF dents = <<>> THEN [err |-> "", files |-> fs]
    ELSE IF ~IsOurs(Head(dents), ourPrefix)
    THEN DeleteLoop(Tail(dents), ourPrefix, fs, failName)
    ELSE IF Head(dents) = failName THEN [err |-> "remove failed", files |-> fs]
    ELSE DeleteLoop(Tail(dents), ourPrefix, {f \in fs : f.name # Head(dents)}, failName)

unixDeviceDeleteFiles(fs, typePrefix, deviceName, optPrefix, failName) ==
    DeleteLoop(SortNames(FileNames(fs)), OurPrefix(typePrefix, deviceName, optPrefix),
               fs, failName)

(***************************************************************************)
(* The device engine as a state machine.  Every call gets a fresh          *)
(* RunConfig, as the device's Start and Stop hooks do; runConf is what the *)
(* call appended to it.                                                    *)
(***************************************************************************)
FilterIdle == [ID |-> "nil", Project |-> "nil", Name |-> "nil", Node |-> "nil",
               Type |-> "nil", Fingerprint |-> "nil"]

PickedIdle == [op |-> "none"]

DbEmpty ==
    [instances |-> {}, instances_config |-> {}, instances_devices |-> {},
     instances_devices_config |-> {}, instances_profiles |-> {}, certificates |-> {},
     nextInstanceID |-> 1, nextDeviceID |-> 1, nextCertificateID |-> 1]

DbLastIdle == [op |-> "none"]

WarningsEmpty == [rows |-> {}, now |-> 0, nextUUID |-> 1]

WarnLastIdle == [op |-> "none"]

DhcpLastIdle == [op |-> "none"]

ClusterConfEmpty == [values |-> {}, table |-> {}]

ConfLastIdle == [op |-> "none"]

ProcsIdle == [n \in {} |-> "new"]

LockIdle == [on |-> FALSE, holder |-> <<>>]

DevInit ==
    /\ files = {}
    /\ userNS \in BOOLEAN
    /\ runConf = EmptyRunConf
    /\ last = [op |-> "idle"]
    /\ filter = FilterIdle
    /\ picked = PickedIdle
    /\ db = DbEmpty
    /\ dbLast = DbLastIdle
    /\ warnings = WarningsEmpty
    /\ warnLast = WarnLastIdle
    /\ hosts = {}
    /\ dhcpLast = DhcpLastIdle
    /\ procs = ProcsIdle
    /\ lock = LockIdle
    /\ clusterConf = ClusterConfEmpty
    /\ confLast = ConfLastIdle

Setup(deviceName, m, io) ==
    LET r == unixDeviceSetup(files, userNS, TypePrefix, deviceName, m, TRUE, io, EmptyRunConf)
    IN  /\ last.op = "idle"
        /\ Cardinality(files) < MaxFiles
        /\ files' = r.files
        /\ runConf' = r.rc
        /\ last' = [op |-> "setup", name |-> deviceName, m |-> m, io |-> io,
                    err |-> r.err, dupe |-> r.dupe, pre |-> files]
        /\ UNCHANGED <<userNS, filter, picked, db, dbLast, warnVars, dhcpVars, confVars, sibVars>>

\* UnixDeviceCreate called on its own, as the devices that make one node do.
Create(prefix, m, defaultMode, io) ==
    LET r == UnixDeviceCreate(files, userNS, prefix, m, defaultMode, io)
    IN  /\ last.op = "idle"
        /\ Cardinality(files) < MaxFiles
        /\ files' = r.files
        /\ runConf' = EmptyRunConf
        /\ last' = [op |-> "create", prefix |-> prefix, m |-> m, defaultMode |-> defaultMode,
                    io |-> io, err |-> r.err, d |-> r.d, touched |-> r.touched, pre |-> files]
        /\ UNCHANGED <<userNS, filter, picked, db, dbLast, warnVars, dhcpVars, confVars, sibVars>>

\* UnixDeviceExists: the answer, and nothing else.
Exists(prefix, path) ==
    /\ last.op = "idle"
    /\ runConf' = EmptyRunConf
    /\ last' = [op |-> "exists", prefix |-> prefix, path |-> path,
                found |-> UnixDeviceExists(files, prefix, path), pre |-> files]
    /\ UNCHANGED <<files, userNS, filter, picked, db, dbLast, warnVars, dhcpVars, confVars, sibVars>>

\* A Remove that also deletes the host files of its device.
RemoveAndDelete(deviceName, optPrefix) ==
    LET r == unixDeviceRemove(files, TypePrefix, deviceName, optPrefix, EmptyRunConf)
    IN  /\ last.op = "idle"
        /\ runConf' = r.rc
        /\ files' = unixDeviceDeleteFiles(files, TypePrefix, deviceName, optPrefix, <<>>).files
        /\ last' = [op |-> "remove", name |-> deviceName, opt |-> optPrefix,
                    err |-> r.err, pre |-> files]
        /\ UNCHANGED <<userNS, filter, picked, db, dbLast, warnVars, dhcpVars, confVars, sibVars>>

Remove(deviceName, optPrefix) ==
    LET r == unixDeviceRemove(files, TypePrefix, deviceName, optPrefix, EmptyRunConf)
    IN  /\ last.op = "idle"
        /\ runConf' = r.rc
        /\ last' = [op |-> "remove", name |-> deviceName, opt |-> optPrefix,
                    err |-> r.err, pre |-> files]
        /\ UNCHANGED <<files, userNS, filter, picked, db, dbLast, warnVars, dhcpVars, confVars, sibVars>>

DeleteFiles(deviceName, optPrefix, failName) ==
    LET r == unixDeviceDeleteFiles(files, TypePrefix, deviceName, optPrefix, failName)
    IN  /\ last.op = "idle"
        /\ files' = r.files
        /\ runConf' = EmptyRunConf
        /\ last' = [op |-> "delete", name |-> deviceName, opt |-> optPrefix,
                    failName |-> failName, err |-> r.err, pre |-> files]
        /\ UNCHANGED <<userNS, filter, picked, db, dbLast, warnVars, dhcpVars, confVars, sibVars>>

\* The caller takes the result and the run configuration of the call.
Return ==
    /\ last.op # "idle"
    /\ last' = [op |-> "idle"]
    /\ runConf' = EmptyRunConf
    /\ UNCHANGED <<files, userNS, filter, picked, db, dbLast, warnVars, dhcpVars, confVars, sibVars>>

DevNext ==
    \/ \E n \in DeviceNames, m \in Configs, io \in IOOutcomes : Setup(n, m, io)
    \/ \E n \in DeviceNames, m \in Configs, io \in IOOutcomes :
            Create(deviceJoinPath(<<TypePrefix, n>>), m, TRUE, io)
    \/ \E n \in DeviceNames, p \in DestPaths : Exists(deviceJoinPath(<<TypePrefix, n>>), p)
    \/ \E n \in DeviceNames, o \in OptPrefixes : Remove(n, o)
    \/ \E n \in DeviceNames, o \in OptPrefixes, fn \in FileNames(files) \cup {<<>>} :
            DeleteFiles(n, o, fn)
    \/ Return

SpecDevice == DevInit /\ [][DevNext]_vars

(***************************************************************************)
(* UnixDeviceCreate on the ownership keys of the config: one device, one   *)
(* destination path, every combination of "uid", "gid" and                 *)
(* "ownership.inherit".                                                    *)
(***************************************************************************)
OwnerConfigs ==
    {[Config(<<"/", "y">>, "unix-char", "", "") EXCEPT !.uid = u, !.gid = g, !.inherit = i] :
        u \in {"", "1", "x"}, g \in {"", "2"}, i \in {"", "true", "false"}}

OwnNext ==
    \/ \E m \in OwnerConfigs, defaultMode \in BOOLEAN, io \in IOOutcomes :
            Create(deviceJoinPath(<<TypePrefix, <<"a">>>>), m, defaultMode, io)
    \/ \E fn \in FileNames(files) \cup {<<>>} : DeleteFiles(<<"a">>, <<>>, fn)
    \/ Return

SpecOwnership == DevInit /\ [][OwnNext]_vars

(***************************************************************************)
(* The entity filter dispatch of the generated mappers.                    *)
(***************************************************************************)
\* A filter field that is a nil pointer.
Nil == "nil"

\* The registered SELECT statements of instances: the columns of the WHERE
\* clause, in the order of the "?" placeholders.
InstanceStmts ==
    [instanceObjects |-> <<>>,
     instanceObjectsByID |-> <<"ID">>,
     instanceObjectsByProject |-> <<"Project">>,
     instanceObjectsByProjectAndType |-> <<"Project", "Type">>,
     instanceObjectsByProjectAndTypeAndNode |-> <<"Project", "Type", "Node">>,
     instanceObjectsByProjectAndTypeAndNodeAndName |-> <<"Project", "Type", "Node", "Name">>,
     instanceObjectsByProjectAndTypeAndName |-> <<"Project", "Type", "Name">>,
     instanceObjectsByProjectAndName |-> <<"Project", "Name">>,
     instanceObjectsByProjectAndNameAndNode |-> <<"Project", "Name", "Node">>,
     instanceObjectsByProjectAndNode |-> <<"Project", "Node">>,
     instanceObjectsByType |-> <<"Type">>,
     instanceObjectsByTypeAndName |-> <<"Type", "Name">>,
     instanceObjectsByTypeAndNameAndNode |-> <<"Type", "Name", "Node">>,
     instanceObjectsByTypeAndNode |-> <<"Type", "Node">>,
     instanceObjectsByNode |-> <<"Node">>,
     instanceObjectsByNodeAndName |-> <<"Node", "Name">>,
     instanceObjectsByName |-> <<"Name">>]

\* The registered SELECT statements of certificates.
CertificateStmts ==
    [certificateObjects |-> <<>>,
     certificateObjectsByID |-> <<"ID">>,
     certificateObjectsByFingerprint |-> <<"Fingerprint">>]

Branch(present, absent, stmt, args) ==
    [present |-> present, absent |-> absent, stmt |-> stmt, args |-> args]

\* The if/else-if chain of GetInstances, in order: the fields tested != nil,
\* the fields tested == nil, the statement and the arguments bound.
InstanceBranches ==
    <<Branch({"Project", "Type", "Node", "Name"}, {"ID"},
           "instanceObjectsByProjectAndTypeAndNodeAndName",
           <<"Project", "Type", "Node", "Name">>),
      Branch({"Project", "Type", "Node"}, {"ID", "Name"},
           "instanceObjectsByProjectAndTypeAndNode",
           <<"Project", "Type", "Node">>),
      Branch({"Project", "Type", "Name"}, {"ID", "Node"},
           "instanceObjectsByProjectAndTypeAndName",
           <<"Project", "Type", "Name">>),
      Branch({"Type", "Name", "Node"}, {"ID", "Project"},
           "instanceObjectsByTypeAndNameAndNode",
           <<"Type", "Name", "Node">>),
      Branch({"Project", "Name", "Node"}, {"ID", "Type"},
           "instanceObjectsByProjectAndNameAndNode",
           <<"Project", "Name", "Node">>),
      Branch({"Project", "Type"}, {"ID", "Name", "Node"},
           "instanceObjectsByProjectAndType",
           <<"Project", "Type">>),
      Branch({"Type", "Node"}, {"ID", "Project", "Name"},
           "instanceObjectsByTypeAndNode",
           <<"Type", "Node">>),
      Branch({"Type", "Name"}, {"ID", "Project", "Node"},
           "instanceObjectsByTypeAndName",
           <<"Type", "Name">>),
      Branch({"Project", "Node"}, {"ID", "Name", "Type"},
           "instanceObjectsByProjectAndNode",
           <<"Project", "Node">>),
      Branch({"Project", "Name"}, {"ID", "Node", "Type"},
           "instanceObjectsByProjectAndName",
           <<"Project", "Name">>),
      Branch({"Node", "Name"}, {"ID", "Project", "Type"},
           "instanceObjectsByNodeAndName",
           <<"Node", "Name">>),
      Branch({"Type"}, {"ID", "Project", "Name", "Node"},
           "instanceObjectsByType",
           <<"Type">>),
      Branch({"Project"}, {"ID", "Name", "Node", "Type"},
           "instanceObjectsByProject",
           <<"Project">>),
      Branch({"Node"}, {"ID", "Project", "Name", "Type"},
           "instanceObjectsByNode",
           <<"Node">>),
      Branch({"Name"}, {"ID", "Project", "Node", "Type"},
           "instanceObjectsByName",
           <<"Name">>),
      Branch({"ID"}, {"Project", "Name", "Node", "Type"},
           "instanceObjectsByID",
           <<"ID">>),
      Branch({}, {"ID", "Project", "Name", "Node", "Type"},
           "instanceObjects",
           <<>>)>>

\* The chain of GetInstanceURIs, which is the same text as that of GetInstances.
InstanceURIBranches == InstanceBranches

\* The chain of GetCertificates.
CertificateBranches ==
    <<Branch({"ID"}, {"Fingerprint", "Name", "Type"}, "certificateObjectsByID", <<"ID">>),
      Branch({"Fingerprint"}, {"ID", "Name", "Type"},
             "certificateObjectsByFingerprint", <<"Fingerprint">>),
      Branch({}, {"ID", "Fingerprint", "Name", "Type"}, "certificateObjects", <<>>)>>

NoStatement == "No statement exists for the given Filter"

\* A chain whose branches test only the fields they bind (no == nil tests):
\* the fault the exact-match claims must detect.
MatchesPresentOnly(b, f) == \A k \in b.present : f[k] # Nil

\* The condition of one branch of a chain.
Matches(b, f) ==
    /\ \A k \in b.present : f[k] # Nil
    /\ \A k \in b.absent : f[k] = Nil

\* The chain: the first branch whose condition holds, else the error.
RECURSIVE Dispatch(_, _)
Dispatch(branches, f) ==
    IF branches = <<>>
    THEN [err |-> NoStatement, stmt |-> "none", args |-> <<>>, ran |-> FALSE]
    ELSE IF Matches(Head(branches), f)
    THEN [err |-> "", stmt |-> Head(branches).stmt, ran |-> TRUE,
          args |-> [i \in 1..Len(Head(branches).args) |-> f[Head(branches).args[i]]]]
    ELSE Dispatch(Tail(branches), f)

\* The WHERE clause GetDevices builds from its filters: one group of
\* conditions per filter, and the arguments bound.
RECURSIVE DeviceWhere(_, _, _)
DeviceWhere(filters, groups, args) ==
    IF filters = <<>> THEN [err |-> "", groups |-> groups, args |-> args]
    ELSE LET f == Head(filters)
             entries == (IF f.Name # Nil THEN <<"name = ?">> ELSE <<>>)
                        \o (IF f.Type # Nil THEN <<"type = ?">> ELSE <<>>)
             bound == (IF f.Name # Nil THEN <<f.Name>> ELSE <<>>)
                      \o (IF f.Type # Nil THEN <<f.Type>> ELSE <<>>)
         IN  IF entries = <<>>
             THEN [err |-> "Cannot filter on empty DeviceFilter", groups |-> <<>>,
                   args |-> <<>>]
             ELSE DeviceWhere(Tail(filters), Append(groups, entries), args \o bound)

\* The statement selection of GetDevices: the device query is run before the
\* config filters are looked at.
GetDevicesQuery(filters) ==
    LET w == DeviceWhere(filters, <<>>, <<>>)
        emptyConfig == \E i \in 1..Len(filters) :
                          /\ filters[i].Config.given
                          /\ filters[i].Config.Key = Nil
                          /\ filters[i].Config.Value = Nil
    IN  IF w.err # ""
        THEN [err |-> w.err, stmt |-> "none", groups |-> <<>>, args |-> <<>>, ran |-> FALSE]
        ELSE [err |-> IF emptyConfig THEN "Cannot filter on empty ConfigFilter" ELSE "",
              stmt |-> "deviceObjects", groups |-> w.groups, args |-> w.args, ran |-> TRUE]

\* Filters: every field is nil or holds a value.
InstanceFilters ==
    [ID : {Nil, "1"}, Project : {Nil, "p1", "p2"}, Name : {Nil, "n1"}, Node : {Nil, "m1"},
     Type : {Nil, "t1"}, Fingerprint : {Nil}]

CertificateFilters ==
    [ID : {Nil, "1"}, Project : {Nil}, Name : {Nil, "n1"}, Node : {Nil},
     Type : {Nil, "t1"}, Fingerprint : {Nil, "f1", "f2"}]

DeviceFilters ==
    [Name : {Nil, "d1"}, Type : {Nil, "c"},
     Config : {[given |-> FALSE, Key |-> Nil, Value |-> Nil],
               [given |-> TRUE, Key |-> Nil, Value |-> Nil],
               [given |-> TRUE, Key |-> "k", Value |-> Nil]}]

DeviceFilterLists ==
    {<<>>} \cup {<<f>> : f \in DeviceFilters} \cup {<<f, g>> : f, g \in DeviceFilters}

FilterInit ==
    /\ filter = FilterIdle
    /\ picked = PickedIdle
    /\ files = {}
    /\ userNS = FALSE
    /\ runConf = EmptyRunConf
    /\ last = [op |-> "idle"]
    /\ db = DbEmpty
    /\ dbLast = DbLastIdle
    /\ warnings = WarningsEmpty
    /\ warnLast = WarnLastIdle
    /\ hosts = {}
    /\ dhcpLast = DhcpLastIdle
    /\ procs = ProcsIdle
    /\ lock = LockIdle
    /\ clusterConf = ClusterConfEmpty
    /\ confLast = ConfLastIdle

GetInstances(f) ==
    /\ picked.op = "none"
    /\ filter' = f
    /\ picked' = [op |-> "GetInstances"] @@ Dispatch(InstanceBranches, f)
    /\ UNCHANGED <<devVars, dbVars, warnVars, dhcpVars, confVars, sibVars>>

GetInstanceURIs(f) ==
    /\ picked.op = "none"
    /\ filter' = f
    /\ picked' = [op |-> "GetInstanceURIs"] @@ Dispatch(InstanceURIBranches, f)
    /\ UNCHANGED <<devVars, dbVars, warnVars, dhcpVars, confVars, sibVars>>

GetCertificates(f) ==
    /\ picked.op = "none"
    /\ filter' = f
    /\ picked' = [op |-> "GetCertificates"] @@ Dispatch(CertificateBranches, f)
    /\ UNCHANGED <<devVars, dbVars, warnVars, dhcpVars, confVars, sibVars>>

GetDevices(fl) ==
    /\ picked.op = "none"
    /\ filter' = fl
    /\ picked' = [op |-> "GetDevices"] @@ GetDevicesQuery(fl)
    /\ UNCHANGED <<devVars, dbVars, warnVars, dhcpVars, confVars, sibVars>>

\* The caller takes the result.
FilterReturn ==
    /\ picked.op # "none"
    /\ filter' = FilterIdle
    /\ picked' = PickedIdle
    /\ UNCHANGED <<devVars, dbVars, warnVars, dhcpVars, confVars, sibVars>>

FilterNext ==
    \/ \E f \in InstanceFilters : GetInstances(f)
    \/ \E f \in InstanceFilters : GetInstanceURIs(f)
    \/ \E f \in CertificateFilters : GetCertificates(f)
    \/ \E fl \in DeviceFilterLists : GetDevices(fl)
    \/ FilterReturn

SpecFilter == FilterInit /\ [][FilterNext]_vars

(***************************************************************************)
(* The relational entity store: the generated mappers of instances and     *)
(* certificates over the tables of the cluster database.  A config mapping *)
(* is a set of <<key, value>> pairs with distinct keys, a device map a set *)
(* of devices with distinct names.                                         *)
(***************************************************************************)
\* Errors: the kind a caller can test for (a status, a sentinel) and the
\* message.  fmt.Errorf makes an error of no kind.
NoError == [kind |-> "", msg |-> ""]

Errorf(msg) == [kind |-> "error", msg |-> msg]

StatusErrorf(status, msg) == [kind |-> status, msg |-> msg]

\* fmt.Errorf("...: %w", err): the wrapped error is still found by
\* errors.Is and api.StatusErrorCheck.
Wrapf(msg, err) == [kind |-> err.kind, msg |-> msg]

ErrNoSuchObject == [kind |-> "NotFound", msg |-> "No such object"]

\* UNIQUE constraints of the tables (instances: project_id and name,
\* certificates: fingerprint): the statement fails and changes nothing.
ConstraintFailed == Errorf("UNIQUE constraint failed")

\* One "INSERT INTO <entity>_config" per pair of a config mapping.
CreateConfig(rows, insert) == rows \cup {insert}

\* A Create that inserts no config rows: the fault the round trip must detect.
SkipConfig(rows, referenceID, config) == rows

RECURSIVE InsertConfig(_, _, _)
InsertConfig(rows, referenceID, config) ==
    IF config = {} THEN rows
    ELSE LET kv == CHOOSE kv \in config : TRUE
         IN  InsertConfig(CreateConfig(rows, [ref |-> referenceID, Key |-> kv[1],
                                              Value |-> kv[2]]),
                          referenceID, config \ {kv})

\* The config mapping of one parent in the map GetConfig returns.
GetConfig(rows, referenceID) ==
    {<<c.Key, c.Value>> : c \in {c \in rows : c.ref = referenceID}}

\* The insert of one device and of its config.
CreateDevice(d, insert) ==
    [d EXCEPT !.instances_devices =
                  @ \cup {[ID |-> d.nextDeviceID, ref |-> insert.ReferenceID,
                           Name |-> insert.Name, Type |-> insert.Type]},
              !.instances_devices_config = InsertConfig(@, d.nextDeviceID, insert.Config),
              !.nextDeviceID = @ + 1]

\* "for _, insert := range object.Devices": order is the order in which the
\* map is iterated.
RECURSIVE CreateDevices(_, _, _)
CreateDevices(d, referenceID, order) ==
    IF order = <<>> THEN d
    ELSE CreateDevices(CreateDevice(d, [Head(order) EXCEPT !.ReferenceID = referenceID]),
                       referenceID, Tail(order))

\* The devices of one parent in the map GetDevices returns (no filters).
GetDevicesOf(d, referenceID) ==
    {[ID |-> r.ID, ReferenceID |-> r.ref, Name |-> r.Name, Type |-> r.Type,
      Config |-> GetConfig(d.instances_devices_config, r.ID)] :
        r \in {r \in d.instances_devices : r.ref = referenceID}}

DeleteDevices(d, referenceID) ==
    LET gone == {r.ID : r \in {r \in d.instances_devices : r.ref = referenceID}}
    IN  [d EXCEPT !.instances_devices = {r \in @ : r.ref # referenceID},
                  !.instances_devices_config = {c \in @ : c.ref \notin gone}]

\* An update of the devices that keeps the stored ones.
MergeDevices(d, referenceID, order) == CreateDevices(d, referenceID, order)

UpdateDevices(d, referenceID, order) ==
    CreateDevices(DeleteDevices(d, referenceID), referenceID, order)

UpdateConfig(rows, referenceID, config) ==
    InsertConfig({c \in rows : c.ref # referenceID}, referenceID, config)

\* The association table: the rows of the instance are replaced by one row
\* per profile, in the order of the list.
UpdateInstanceProfiles(d, id, profiles) ==
    [d EXCEPT !.instances_profiles =
                  {r \in @ : r.instance_id # id}
                  \cup {[instance_id |-> id, profile |-> profiles[i], apply_order |-> i] :
                            i \in 1..Len(profiles)}]

\* The profile names of one instance, in apply order.
GetInstanceProfiles(d, id) ==
    LET rs == {r \in d.instances_profiles : r.instance_id = id}
    IN  [i \in 1..Cardinality(rs) |-> (CHOOSE r \in rs : r.apply_order = i).profile]

\* ON DELETE CASCADE of the child tables of instances.
DeleteCascade(d, ids) ==
    LET gone == {r.ID : r \in {r \in d.instances_devices : r.ref \in ids}}
    IN  [d EXCEPT !.instances_config = {c \in @ : c.ref \notin ids},
                  !.instances_devices = {r \in @ : r.ref \notin ids},
                  !.instances_devices_config = {c \in @ : c.ref \notin gone},
                  !.instances_profiles = {r \in @ : r.instance_id \notin ids}]

\* The rows a SELECT/UPDATE/DELETE ... WHERE col1 = ? AND col2 = ? matches.
SelectRows(rows, cols, args) ==
    {r \in rows : \A i \in 1..Len(cols) : r[cols[i]] = args[i]}

InstanceRow(id, object) ==
    [ID |-> id, Project |-> object.Project, Name |-> object.Name, Node |-> object.Node,
     Type |-> object.Type, Description |-> object.Description]

ClusterTx_GetInstanceID(d, project, name) ==
    LET rows == SelectRows(d.instances, <<"Project", "Name">>, <<project, name>>)
    IN  IF rows = {} THEN [err |-> ErrNoSuchObject, id |-> -1]
        ELSE IF Cardinality(rows) > 1
        THEN [err |-> Errorf("More than one row returned"), id |-> -1]
        ELSE [err |-> NoError, id |-> (CHOOSE r \in rows : TRUE).ID]

\* An existence check that never finds the key.
InstanceNeverExists(d, project, name) == [err |-> NoError, exists |-> FALSE]

ClusterTx_InstanceExists(d, project, name) ==
    LET r == ClusterTx_GetInstanceID(d, project, name)
    IN  IF r.err # NoError
        THEN IF r.err = ErrNoSuchObject THEN [err |-> NoError, exists |-> FALSE]
             ELSE [err |-> r.err, exists |-> FALSE]
        ELSE [err |-> NoError, exists |-> TRUE]

ClusterTx_CreateInstance(d, object, order) ==
    LET ex == ClusterTx_InstanceExists(d, object.Project, object.Name)
        id == d.nextInstanceID
        d1 == [d EXCEPT !.instances = @ \cup {InstanceRow(id, object)},
                        !.nextInstanceID = @ + 1]
        d2 == [d1 EXCEPT !.instances_config = InsertConfig(@, id, object.Config)]
        d3 == CreateDevices(d2, id, order)
        d4 == UpdateInstanceProfiles(d3, id, object.Profiles)
    IN  IF ex.err # NoError
        THEN [err |-> Wrapf("Failed to check for duplicates", ex.err), id |-> -1, db |-> d]
        ELSE IF ex.exists
        THEN [err |-> Errorf("This \"instances\" entry already exists"), id |-> -1, db |-> d]
        ELSE [err |-> NoError, id |-> id, db |-> d4]

\* GetInstances: the statement of the chain, then the hydration of every
\* object with its config, its devices and its profiles.  The result slice
\* is taken as a set (its order is that of the ORDER BY clause).
ClusterTx_GetInstances(d, f) ==
    LET sel == Dispatch(InstanceBranches, f)
        rows == SelectRows(d.instances, InstanceStmts[sel.stmt], sel.args)
        duplicate == \E r \in rows : \E a, b \in GetDevicesOf(d, r.ID) :
                        a # b /\ a.Name = b.Name
    IN  IF sel.err # ""
        THEN [err |-> Errorf(sel.err), objects |-> {}]
        ELSE IF duplicate
        THEN [err |-> Errorf("Found duplicate Device with name"), objects |-> {}]
        ELSE [err |-> NoError,
              objects |-> {[ID |-> r.ID, Project |-> r.Project, Name |-> r.Name,
                            Node |-> r.Node, Type |-> r.Type,
                            Description |-> r.Description,
                            Config |-> GetConfig(d.instances_config, r.ID),
                            Devices |-> GetDevicesOf(d, r.ID),
                            Profiles |-> GetInstanceProfiles(d, r.ID)] : r \in rows}]

NoObject == [ID |-> -1]

\* A GetOne that hands out one of several matches instead of failing.
GetInstanceAny(d, project, name) ==
    LET r == ClusterTx_GetInstances(d, [ID |-> Nil, Project |-> project, Name |-> name,
                                        Node |-> Nil, Type |-> Nil, Fingerprint |-> Nil])
    IN  IF r.objects = {} THEN [err |-> ErrNoSuchObject, object |-> NoObject]
        ELSE [err |-> NoError, object |-> CHOOSE o \in r.objects : TRUE]

ClusterTx_GetInstance(d, project, name) ==
    LET r == ClusterTx_GetInstances(d, [ID |-> Nil, Project |-> project, Name |-> name,
                                        Node |-> Nil, Type |-> Nil, Fingerprint |-> Nil])
    IN  IF r.err # NoError
        THEN [err |-> Wrapf("Failed to fetch from \"instances\" table", r.err),
              object |-> NoObject]
        ELSE IF r.objects = {} THEN [err |-> ErrNoSuchObject, object |-> NoObject]
        ELSE IF Cardinality(r.objects) = 1
        THEN [err |-> NoError, object |-> CHOOSE o \in r.objects : TRUE]
        ELSE [err |-> Errorf("More than one \"instances\" entry matches"), object |-> NoObject]

\* Another row holds the natural key a row is about to be given.
InstanceKeyTaken(d, ids, project, name) ==
    \E r \in d.instances : r.ID \notin ids /\ r.Project = project /\ r.Name = name

ClusterTx_RenameInstance(d, project, name, to) ==
    LET rows == SelectRows(d.instances, <<"Project", "Name">>, <<project, name>>)
        ids == {r.ID : r \in rows}
        n == Cardinality(rows)
    IN  IF rows # {} /\ InstanceKeyTaken(d, ids, project, to)
        THEN [err |-> Wrapf("Rename Instance failed", ConstraintFailed), db |-> d]
        ELSE [err |-> IF n # 1 THEN Errorf("Query affected %d rows instead of 1")
                      ELSE NoError,
              db |-> [d EXCEPT !.instances =
                          (@ \ rows) \cup {[r EXCEPT !.Name = to] : r \in rows}]]

ClusterTx_DeleteInstance(d, project, name) ==
    LET rows == SelectRows(d.instances, <<"Project", "Name">>, <<project, name>>)
        n == Cardinality(rows)
    IN  [err |-> IF n # 1 THEN Errorf("Query deleted %d rows instead of 1") ELSE NoError,
         db |-> DeleteCascade([d EXCEPT !.instances = @ \ rows], {r.ID : r \in rows})]

ClusterTx_UpdateInstance(d, project, name, object, order) ==
    LET r == ClusterTx_GetInstanceID(d, project, name)
        id == r.id
        d1 == [d EXCEPT !.instances =
                   {x \in @ : x.ID # id} \cup {InstanceRow(id, object)}]
        d2 == [d1 EXCEPT !.instances_config = UpdateConfig(@, id, object.Config)]
        d3 == UpdateDevices(d2, id, order)
        d4 == UpdateInstanceProfiles(d3, id, object.Profiles)
    IN  IF r.err # NoError THEN [err |-> r.err, db |-> d]
        ELSE IF InstanceKeyTaken(d, {id}, object.Project, object.Name)
        THEN [err |-> Wrapf("Update \"instances\" entry failed", ConstraintFailed), db |-> d]
        ELSE [err |-> NoError, db |-> d4]

CertificateRow(id, object) ==
    [ID |-> id, Fingerprint |-> object.Fingerprint, Type |-> object.Type,
     Name |-> object.Name, Certificate |-> object.Certificate,
     Restricted |-> object.Restricted]

\* GetCertificates: the statement of the chain and its rows.
cluster_GetCertificates(d, f) ==
    LET sel == Dispatch(CertificateBranches, f)
    IN  IF sel.err # "" THEN [err |-> Errorf(sel.err), objects |-> {}]
        ELSE [err |-> NoError,
              objects |-> SelectRows(d.certificates, CertificateStmts[sel.stmt], sel.args)]

cluster_GetCertificate(d, fingerprint) ==
    LET r == cluster_GetCertificates(d, [ID |-> Nil, Project |-> Nil, Name |-> Nil,
                                         Node |-> Nil, Type |-> Nil,
                                         Fingerprint |-> fingerprint])
    IN  IF r.err # NoError
        THEN [err |-> Wrapf("Failed to fetch from \"certificates\" table", r.err),
              object |-> NoObject]
        ELSE IF r.objects = {}
        THEN [err |-> StatusErrorf("NotFound", "Certificate not found"), object |-> NoObject]
        ELSE IF Cardinality(r.objects) = 1
        THEN [err |-> NoError, object |-> CHOOSE o \in r.objects : TRUE]
        ELSE [err |-> Errorf("More than one \"certificates\" entry matches"),
              object |-> NoObject]

cluster_GetCertificateID(d, fingerprint) ==
    LET rows == SelectRows(d.certificates, <<"Fingerprint">>, <<fingerprint>>)
    IN  IF rows = {}
        THEN [err |-> StatusErrorf("NotFound", "Certificate not found"), id |-> -1]
        ELSE IF Cardinality(rows) > 1
        THEN [err |-> Errorf("More than one row returned"), id |-> -1]
        ELSE [err |-> NoError, id |-> (CHOOSE r \in rows : TRUE).ID]

cluster_CertificateExists(d, fingerprint) ==
    LET r == cluster_GetCertificateID(d, fingerprint)
    IN  IF r.err # NoError
        THEN IF r.err.kind = "NotFound" THEN [err |-> NoError, exists |-> FALSE]
             ELSE [err |-> r.err, exists |-> FALSE]
        ELSE [err |-> NoError, exists |-> TRUE]

cluster_CreateCertificate(d, object) ==
    LET ex == cluster_CertificateExists(d, object.Fingerprint)
        id == d.nextCertificateID
    IN  IF ex.err # NoError
        THEN [err |-> Wrapf("Failed to check for duplicates", ex.err), id |-> -1, db |-> d]
        ELSE IF ex.exists
        THEN [err |-> StatusErrorf("Conflict", "This \"certificates\" entry already exists"),
              id |-> -1, db |-> d]
        ELSE [err |-> NoError, id |-> id,
              db |-> [d EXCEPT !.certificates = @ \cup {CertificateRow(id, object)},
                               !.nextCertificateID = @ + 1]]

cluster_DeleteCertificate(d, fingerprint) ==
    LET rows == SelectRows(d.certificates, <<"Fingerprint">>, <<fingerprint>>)
        n == Cardinality(rows)
    IN  [err |-> IF n = 0 THEN StatusErrorf("NotFound", "Certificate not found")
                 ELSE IF n > 1
                 THEN Errorf("Query deleted %d Certificate rows instead of 1")
                 ELSE NoError,
         db |-> [d EXCEPT !.certificates = @ \ rows]]

cluster_UpdateCertificate(d, fingerprint, object) ==
    LET r == cluster_GetCertificateID(d, fingerprint)
    IN  IF r.err # NoError THEN [err |-> r.err, db |-> d]
        ELSE IF \E x \in d.certificates : x.ID # r.id /\ x.Fingerprint = object.Fingerprint
        THEN [err |-> Wrapf("Update \"certificates\" entry failed", ConstraintFailed), db |-> d]
        ELSE [err |-> NoError,
              db |-> [d EXCEPT !.certificates =
                          {x \in @ : x.ID # r.id} \cup {CertificateRow(r.id, object)}]]

\* The entities handed to the store.
Device(name, type, config) ==
    [ID |-> 0, ReferenceID |-> 0, Name |-> name, Type |-> type, Config |-> config]

Instance(project, name, type, description, config, devices, profiles) ==
    [ID |-> 0, Project |-> project, Name |-> name, Node |-> "m1", Type |-> type,
     Description |-> description, Config |-> config, Devices |-> devices,
     Profiles |-> profiles]

Certificate(fingerprint, type, name, certificate, restricted) ==
    [ID |-> 0, Fingerprint |-> fingerprint, Type |-> type, Name |-> name,
     Certificate |-> certificate, Restricted |-> restricted]

InstanceObjects ==
    {Instance("p1", "n1", "container", "", {}, {}, <<>>),
     Instance("p1", "n1", "vm", "one",
              {<<"k1", "v1">>, <<"k2", "">>},
              {Device("d1", "unix-char", {<<"path", "/dev/x">>}), Device("d2", "nic", {})},
              <<"default", "web">>),
     Instance("p1", "n2", "container", "two",
              {<<"k1", "v2">>},
              {Device("d1", "disk", {<<"path", "/">>, <<"pool", "x">>})},
              <<"web", "default">>),
     Instance("p2", "n1", "vm", "", {<<"k2", "v1">>}, {}, <<"default">>)}

InstanceKeys == {<<"p1", "n1">>, <<"p1", "n2">>, <<"p2", "n1">>}

InstanceNames == {"n1", "n2"}

CertificateObjects ==
    {Certificate("f1", "client", "c1", "pem1", FALSE),
     Certificate("f1", "server", "c2", "pem2", TRUE),
     Certificate("f2", "client", "c1", "pem3", FALSE)}

Fingerprints == {"f1", "f2", "f3"}

\* The orders in which a device map can be iterated.
Orders(devices) ==
    {o \in UNION {[1..n -> devices] : n \in {Cardinality(devices)}} :
        \A i, j \in 1..Len(o) : i # j => o[i] # o[j]}

\* The ID counters stay within the bounds of the model.
MaxDeviceRows == 2 * MaxRows

Bounded(d) ==
    /\ (d.nextInstanceID - 1) + (d.nextCertificateID - 1) <= MaxRows
    /\ d.nextDeviceID <= MaxDeviceRows + 1

StoreInit ==
    /\ db = DbEmpty
    /\ dbLast = DbLastIdle
    /\ files = {}
    /\ userNS = FALSE
    /\ runConf = EmptyRunConf
    /\ last = [op |-> "idle"]
    /\ filter = FilterIdle
    /\ picked = PickedIdle
    /\ warnings = WarningsEmpty
    /\ warnLast = WarnLastIdle
    /\ hosts = {}
    /\ dhcpLast = DhcpLastIdle
    /\ procs = ProcsIdle
    /\ lock = LockIdle
    /\ clusterConf = ClusterConfEmpty
    /\ confLast = ConfLastIdle

CreateInstance(object, order) ==
    LET r == ClusterTx_CreateInstance(db, object, order)
    IN  /\ dbLast.op = "none"
        /\ Bounded(r.db)
        /\ db' = r.db
        /\ dbLast' = [op |-> "CreateInstance", object |-> object, err |-> r.err,
                      id |-> r.id, pre |-> db]
        /\ UNCHANGED <<devVars, filterVars, warnVars, dhcpVars, confVars, sibVars>>

GetInstance(project, name) ==
    LET r == ClusterTx_GetInstance(db, project, name)
    IN  /\ dbLast.op = "none"
        /\ dbLast' = [op |-> "GetInstance", key |-> <<project, name>>, err |-> r.err,
                      object |-> r.object, pre |-> db]
        /\ UNCHANGED <<db, devVars, filterVars, warnVars, dhcpVars, confVars, sibVars>>

RenameInstance(project, name, to) ==
    LET r == ClusterTx_RenameInstance(db, project, name, to)
    IN  /\ dbLast.op = "none"
        /\ db' = r.db
        /\ dbLast' = [op |-> "RenameInstance", key |-> <<project, name>>, to |-> to,
                      err |-> r.err, pre |-> db]
        /\ UNCHANGED <<devVars, filterVars, warnVars, dhcpVars, confVars, sibVars>>

DeleteInstance(project, name) ==
    LET r == ClusterTx_DeleteInstance(db, project, name)
    IN  /\ dbLast.op = "none"
        /\ db' = r.db
        /\ dbLast' = [op |-> "DeleteInstance", key |-> <<project, name>>, err |-> r.err,
                      pre |-> db]
        /\ UNCHANGED <<devVars, filterVars, warnVars, dhcpVars, confVars, sibVars>>

UpdateInstance(project, name, object, order) ==
    LET r == ClusterTx_UpdateInstance(db, project, name, object, order)
    IN  /\ dbLast.op = "none"
        /\ Bounded(r.db)
        /\ db' = r.db
        /\ dbLast' = [op |-> "UpdateInstance", key |-> <<project, name>>,
                      object |-> object, err |-> r.err, pre |-> db]
        /\ UNCHANGED <<devVars, filterVars, warnVars, dhcpVars, confVars, sibVars>>

CreateCertificate(object) ==
    LET r == cluster_CreateCertificate(db, object)
    IN  /\ dbLast.op = "none"
        /\ Bounded(r.db)
        /\ db' = r.db
        /\ dbLast' = [op |-> "CreateCertificate", object |-> object, err |-> r.err,
                      id |-> r.id, pre |-> db]
        /\ UNCHANGED <<devVars, filterVars, warnVars, dhcpVars, confVars, sibVars>>

GetCertificate(fingerprint) ==
    LET r == cluster_GetCertificate(db, fingerprint)
    IN  /\ dbLast.op = "none"
        /\ dbLast' = [op |-> "GetCertificate", key |-> <<fingerprint>>, err |-> r.err,
                      object |-> r.object, pre |-> db]
        /\ UNCHANGED <<db, devVars, filterVars, warnVars, dhcpVars, confVars, sibVars>>

DeleteCertificate(fingerprint) ==
    LET r == cluster_DeleteCertificate(db, fingerprint)
    IN  /\ dbLast.op = "none"
        /\ db' = r.db
        /\ dbLast' = [op |-> "DeleteCertificate", key |-> <<fingerprint>>, err |-> r.err,
                      pre |-> db]
        /\ UNCHANGED <<devVars, filterVars, warnVars, dhcpVars, confVars, sibVars>>

UpdateCertificate(fingerprint, object) ==
    LET r == cluster_UpdateCertificate(db, fingerprint, object)
    IN  /\ dbLast.op = "none"
        /\ db' = r.db
        /\ dbLast' = [op |-> "UpdateCertificate", key |-> <<fingerprint>>,
                      object |-> object, err |-> r.err, pre |-> db]
        /\ UNCHANGED <<devVars, filterVars, warnVars, dhcpVars, confVars, sibVars>>

\* The caller takes the result.
StoreReturn ==
    /\ dbLast.op # "none"
    /\ dbLast' = DbLastIdle
    /\ UNCHANGED <<db, devVars, filterVars, warnVars, dhcpVars, confVars, sibVars>>

StoreNext ==
    \/ \E o \in InstanceObjects : \E order \in Orders(o.Devices) : CreateInstance(o, order)
    \/ \E k \in InstanceKeys : GetInstance(k[1], k[2])
    \/ \E k \in InstanceKeys, to \in InstanceNames : RenameInstance(k[1], k[2], to)
    \/ \E k \in InstanceKeys : DeleteInstance(k[1], k[2])
    \/ \E k \in InstanceKeys, o \in InstanceObjects :
            \E order \in Orders(o.Devices) : UpdateInstance(k[1], k[2], o, order)
    \/ \E o \in CertificateObjects : CreateCertificate(o)
    \/ \E fp \in Fingerprints : GetCertificate(fp)
    \/ \E fp \in Fingerprints : DeleteCertificate(fp)
    \/ \E fp \in Fingerprints, o \in CertificateObjects : UpdateCertificate(fp, o)
    \/ StoreReturn

SpecStore == StoreInit /\ [][StoreNext]_vars

\* The same reads over tables that were filled from outside the mappers (a
\* restored dump, a schema without the UNIQUE index): any rows with distinct
\* IDs, two of which may hold the same natural key.
SeedInstances ==
    {rows \in SUBSET {InstanceRow(id, o) : id \in 1..MaxRows, o \in InstanceObjects} :
        \A a, b \in rows : a.ID = b.ID => a = b}

SeedCertificates ==
    {rows \in SUBSET {CertificateRow(id, o) : id \in 1..MaxRows, o \in CertificateObjects} :
        \A a, b \in rows : a.ID = b.ID => a = b}

SeededInit ==
    /\ \E is \in SeedInstances, cs \in SeedCertificates :
          db = [DbEmpty EXCEPT !.instances = is, !.certificates = cs,
                               !.nextInstanceID = MaxRows + 1,
                               !.nextCertificateID = MaxRows + 1]
    /\ dbLast = DbLastIdle
    /\ files = {}
    /\ userNS = FALSE
    /\ runConf = EmptyRunConf
    /\ last = [op |-> "idle"]
    /\ filter = FilterIdle
    /\ picked = PickedIdle
    /\ warnings = WarningsEmpty
    /\ warnLast = WarnLastIdle
    /\ hosts = {}
    /\ dhcpLast = DhcpLastIdle
    /\ procs = ProcsIdle
    /\ lock = LockIdle
    /\ clusterConf = ClusterConfEmpty
    /\ confLast = ConfLastIdle

SeededNext ==
    \/ \E k \in InstanceKeys : GetInstance(k[1], k[2])
    \/ \E fp \in Fingerprints : GetCertificate(fp)
    \/ StoreReturn

SpecSeeded == SeededInit /\ [][SeededNext]_vars

(***************************************************************************)
(* CreateInstance statement by statement, inside the transaction of its    *)
(* caller.  Every statement can be refused by the database: failAt is the  *)
(* number of the statement that is (0: none).  s is the call so far: the   *)
(* tables as the transaction sees them, the statements issued, the error   *)
(* returned.                                                               *)
(***************************************************************************)
ExecFailed == Errorf("database is locked")

\* A Create that goes on after a refused statement.
ExecContinuing(s, failAt, stmt, msg, d2) ==
    IF Len(s.trace) + 1 = failAt
    THEN [s EXCEPT !.trace = Append(@, stmt), !.err = Wrapf(msg, ExecFailed)]
    ELSE [s EXCEPT !.trace = Append(@, stmt), !.db = d2]

\* One statement and the "if err != nil { return ... }" behind it: nothing
\* is issued once the function has returned; a refused statement changes
\* nothing and makes the function return the wrapped error; d2 is what the
\* statement makes of the tables.
Exec(s, failAt, stmt, msg, d2) ==
    IF s.err # NoError THEN s
    ELSE IF Len(s.trace) + 1 = failAt
    THEN [s EXCEPT !.trace = Append(@, stmt), !.err = Wrapf(msg, ExecFailed)]
    ELSE [s EXCEPT !.trace = Append(@, stmt), !.db = d2]

\* "for key, value := range object.Config": one INSERT per pair, pairs in
\* the order of the iteration.
RECURSIVE ExecConfig(_, _, _, _, _, _)
ExecConfig(s, failAt, table, msg, referenceID, pairs) ==
    IF pairs = <<>> THEN s
    ELSE LET row == [ref |-> referenceID, Key |-> Head(pairs)[1], Value |-> Head(pairs)[2]]
         IN  ExecConfig(Exec(s, failAt, <<"INSERT", table>>, msg,
                             [s.db EXCEPT ![table] = CreateConfig(@, row)]),
                        failAt, table, msg, referenceID, Tail(pairs))

\* The loop of CreateDevices: the INSERT of the device, its ID, then the
\* INSERTs of its config, before the next device.  (The pairs of a device
\* are taken in one order: the devices handed in have at most one.)
RECURSIVE ExecDevices(_, _, _, _, _)
ExecDevices(s, failAt, msg, referenceID, order) ==
    IF order = <<>> THEN s
    ELSE LET object == Head(order)
             id == s.db.nextDeviceID
             s1 == Exec(s, failAt, <<"INSERT", "instances_devices">>, msg,
                        [s.db EXCEPT !.instances_devices =
                                         @ \cup {[ID |-> id, ref |-> referenceID,
                                                  Name |-> object.Name, Type |-> object.Type]},
                                     !.nextDeviceID = @ + 1])
             s2 == Exec(s1, failAt, <<"LastInsertId", "instances_devices">>, msg, s1.db)
             s3 == ExecConfig(s2, failAt, "instances_devices_config", msg, id,
                              CHOOSE o \in Orders(object.Config) : TRUE)
         IN  ExecDevices(s3, failAt, msg, referenceID, Tail(order))

\* ClusterTx.CreateInstance over the tables d of the caller's transaction:
\* corder and order are the orders in which the config and the devices of
\* the object are iterated.
CreateInstanceSteps(d, object, order, corder, failAt) ==
    LET ex == ClusterTx_InstanceExists(d, object.Project, object.Name)
        id == d.nextInstanceID
        s0 == Exec([db |-> d, trace |-> <<>>, err |-> NoError], failAt,
                   <<"SELECT", "instances">>, "Failed to check for duplicates", d)
        s1 == IF s0.err # NoError THEN s0
              ELSE IF ex.err # NoError
              THEN [s0 EXCEPT !.err = Wrapf("Failed to check for duplicates", ex.err)]
              ELSE IF ex.exists
              THEN [s0 EXCEPT !.err = Errorf("This \"instances\" entry already exists")]
              ELSE s0
        s2 == Exec(s1, failAt, <<"INSERT", "instances">>,
                   "Failed to create \"instances\" entry",
                   [d EXCEPT !.instances = @ \cup {InstanceRow(id, object)},
                             !.nextInstanceID = @ + 1])
        s3 == Exec(s2, failAt, <<"LastInsertId", "instances">>,
                   "Failed to fetch \"instances\" entry ID", s2.db)
        s4 == ExecConfig(s3, failAt, "instances_config",
                         "Insert Config failed for Instance", id, corder)
        s5 == ExecDevices(s4, failAt, "Insert Devices failed for Instance", id, order)
        s6 == Exec(s5, failAt, <<"UPDATE", "instances_profiles">>,
                   "Could not update association table",
                   UpdateInstanceProfiles(s5.db, id, object.Profiles))
    IN  [err |-> s6.err, id |-> IF s6.err = NoError THEN id ELSE -1,
         db |-> s6.db, trace |-> s6.trace]

\* The instances handed to CreateInstance: without children, and with two
\* config pairs, two devices of one pair each, two profiles.
CreatedObjects ==
    {Instance("p1", "n1", "container", "", {}, {}, <<>>),
     Instance("p1", "n1", "vm", "one",
              {<<"k1", "v1">>, <<"k2", "">>},
              {Device("d1", "unix-char", {<<"path", "/dev/x">>}),
               Device("d2", "nic", {<<"name", "eth0">>})},
              <<"default", "web">>),
     Instance("p1", "n2", "container", "two", {<<"k1", "v2">>},
              {Device("d1", "disk", {<<"path", "/">>})}, <<"web">>)}

\* The statements of a CreateInstance of the object that nothing stops.
Statements(object) ==
    CreateInstanceSteps(DbEmpty, object, CHOOSE o \in Orders(object.Devices) : TRUE,
                        CHOOSE o \in Orders(object.Config) : TRUE, 0).trace

CreateInit == StoreInit

CreateInstanceInTx(object, order, corder, failAt) ==
    LET r == CreateInstanceSteps(db, object, order, corder, failAt)
    IN  /\ dbLast.op = "none"
        /\ Bounded(r.db)
        /\ db' = r.db
        /\ dbLast' = [op |-> "CreateInstance", object |-> object, order |-> order,
                      corder |-> corder, failAt |-> failAt, err |-> r.err, id |-> r.id,
                      trace |-> r.trace, pre |-> db]
        /\ UNCHANGED <<devVars, filterVars, warnVars, dhcpVars, confVars, sibVars>>

\* The caller's transaction ends when the function has returned: it is
\* committed after nil and rolled back after an error.
TxEnd ==
    /\ dbLast.op # "none"
    /\ db' = IF dbLast.err = NoError THEN db ELSE dbLast.pre
    /\ dbLast' = DbLastIdle
    /\ UNCHANGED <<devVars, filterVars, warnVars, dhcpVars, confVars, sibVars>>

CreateNext ==
    \/ \E o \in CreatedObjects : \E order \in Orders(o.Devices), corder \in Orders(o.Config) :
            \E failAt \in 0..Len(Statements(o)) : CreateInstanceInTx(o, order, corder, failAt)
    \/ \E k \in InstanceKeys : DeleteInstance(k[1], k[2])
    \/ TxEnd

SpecCreate == CreateInit /\ [][CreateNext]_vars

(***************************************************************************)
(* Warnings: ClusterTx.UpsertWarning and ClusterTx.UpdateWarningStatus     *)
(* over the warnings table.  A date is the reading of a clock that every   *)
(* write advances; a UUID is the number of the draw from uuid.New.  An     *)
(* empty node, project or entity type and the entity ID -1 are stored as   *)
(* NULL and read back as given.                                            *)
(***************************************************************************)
\* warningtype.TypeNames: the codes of the known warning types.
TypeNames == {1, 2}

StatusNew == "New"

StatusAcknowledged == "Acknowledged"

StatusResolved == "Resolved"

\* The cluster members, the projects and the entities that exist.
Nodes == {"m1"}

Projects == {"p1"}

Entities == {<<"instance", 1>>}

\* cluster.GetEntityURL: fails when the entity does not resolve.
cluster_GetEntityURL(entityType, entityID) ==
    IF <<entityType, entityID>> \in Entities THEN NoError
    ELSE StatusErrorf("NotFound", "Entity not found")

\* cluster.GetWarnings with all five fields of the WarningFilter set.
cluster_GetWarnings(rows, f) ==
    {r \in rows : /\ r.TypeCode = f.TypeCode
                  /\ r.Node = f.Node
                  /\ r.Project = f.Project
                  /\ r.EntityType = f.EntityType
                  /\ r.EntityID = f.EntityID}

cluster_WarningExists(rows, UUID) == \E r \in rows : r.UUID = UUID

ClusterTx_GetNodeByName(name) ==
    IF name \in Nodes THEN NoError ELSE StatusErrorf("NotFound", "Cluster member not found")

cluster_GetProjectNames == Projects

\* "UPDATE warnings SET status=?, updated_date=? WHERE uuid=?"
ClusterTx_UpdateWarningStatus(w, UUID, status) ==
    LET now == w.now + 1
        hit == {r \in w.rows : r.UUID = UUID}
    IN  IF hit = {}
        THEN [err |-> StatusErrorf("NotFound", "Warning not found"), w |-> w]
        ELSE [err |-> NoError,
              w |-> [w EXCEPT !.now = now,
                              !.rows = (@ \ hit) \cup
                                  {[r EXCEPT !.Status = status, !.UpdatedDate = now] :
                                       r \in hit}]]

\* An update of the state that leaves the count as it is.
UpdateWarningStateNoCount(w, UUID, message, status) ==
    LET now == w.now + 1
        hit == {r \in w.rows : r.UUID = UUID}
    IN  IF hit = {}
        THEN [err |-> StatusErrorf("NotFound", "Warning not found"), w |-> w]
        ELSE [err |-> NoError,
              w |-> [w EXCEPT !.now = now,
                              !.rows = (@ \ hit) \cup
                                  {[r EXCEPT !.LastMessage = message, !.LastSeenDate = now,
                                             !.UpdatedDate = now, !.Status = status] :
                                       r \in hit}]]

\* "UPDATE warnings SET last_message=?, last_seen_date=?, updated_date=?,
\*  status = ?, count=count+1 WHERE uuid=?"
ClusterTx_UpdateWarningState(w, UUID, message, status) ==
    LET now == w.now + 1
        hit == {r \in w.rows : r.UUID = UUID}
    IN  IF hit = {}
        THEN [err |-> StatusErrorf("NotFound", "Warning not found"), w |-> w]
        ELSE [err |-> NoError,
              w |-> [w EXCEPT !.now = now,
                              !.rows = (@ \ hit) \cup
                                  {[r EXCEPT !.LastMessage = message, !.LastSeenDate = now,
                                             !.UpdatedDate = now, !.Status = status,
                                             !.Count = @ + 1] : r \in hit}]]

\* A create that inserts before it looks up the node and the project.
createWarningUnchecked(w, object) ==
    [err |-> NoError, trace |-> <<"WarningExists", "INSERT">>,
     w |-> [w EXCEPT !.rows = @ \cup {object}, !.now = object.FirstSeenDate,
                     !.nextUUID = @ + 1]]

\* A create that inserts the warning twice, under two UUIDs.
createWarningTwice(w, object) ==
    [err |-> NoError, trace |-> <<"WarningExists", "INSERT", "INSERT">>,
     w |-> [w EXCEPT !.rows = @ \cup {object, [object EXCEPT !.UUID = @ + 1]},
                     !.now = object.FirstSeenDate, !.nextUUID = @ + 2]]

\* createWarning: the duplicate check on the UUID, the lookups of the node
\* and of the project when they are named, then the INSERT.  trace lists the
\* reads and writes of the store in the order they are made.
ClusterTx_createWarning(w, object) ==
    LET t1 == <<"WarningExists">>
        nodeErr == IF object.Node # "" THEN ClusterTx_GetNodeByName(object.Node) ELSE NoError
        t2 == IF object.Node # "" THEN Append(t1, "GetNodeByName") ELSE t1
        t3 == IF object.Project # "" THEN Append(t2, "GetProjectNames") ELSE t2
    IN  IF cluster_WarningExists(w.rows, object.UUID)
        THEN [err |-> Errorf("This warning already exists"), trace |-> t1, w |-> w]
        ELSE IF nodeErr # NoError
        THEN [err |-> Wrapf("Failed to get node", nodeErr), trace |-> t2, w |-> w]
        ELSE IF object.Project # "" /\ object.Project \notin cluster_GetProjectNames
        THEN [err |-> Errorf("Unknown project %q"), trace |-> t3, w |-> w]
        ELSE [err |-> NoError, trace |-> Append(t3, "INSERT"),
              w |-> [w EXCEPT !.rows = @ \cup {object}, !.now = object.FirstSeenDate,
                              !.nextUUID = @ + 1]]

\* An upsert of a known type that updates one of the matches when several
\* match.
UpsertWarningFirstMatch(w, nodeName, projectName, entityType, entityID, typeCode, message) ==
    LET hit == cluster_GetWarnings(w.rows, [TypeCode |-> typeCode, Node |-> nodeName,
                                            Project |-> projectName,
                                            EntityType |-> entityType,
                                            EntityID |-> entityID])
        one == CHOOSE r \in hit : TRUE
        u == ClusterTx_UpdateWarningState(w, one.UUID, message, one.Status)
    IN  IF hit = {} \/ typeCode \notin TypeNames
        THEN [err |-> Errorf("Not updated"), trace |-> <<>>, w |-> w]
        ELSE [err |-> u.err, trace |-> <<"GetWarnings", "UPDATE">>, w |-> u.w]

\* An upsert of a known type that does not query the tuple and always
\* creates a warning.
UpsertWarningAlwaysNew(w, nodeName, projectName, entityType, entityID, typeCode, message) ==
    LET warning == [Node |-> nodeName, Project |-> projectName, EntityType |-> entityType,
                    EntityID |-> entityID, UUID |-> w.nextUUID, TypeCode |-> typeCode,
                    Status |-> StatusNew, FirstSeenDate |-> w.now + 1, LastSeenDate |-> w.now + 1,
                    UpdatedDate |-> 0, LastMessage |-> message, Count |-> 1]
        c == ClusterTx_createWarning(w, warning)
    IN  IF entityType # "" /\ cluster_GetEntityURL(entityType, entityID) # NoError
        THEN [err |-> Errorf("Failed to validate warning"), trace |-> <<"GetEntityURL">>, w |-> w]
        ELSE [err |-> c.err, trace |-> c.trace, w |-> c.w]

\* A status that is set back to New whatever it was.
AlwaysStatusNew(status) == StatusNew

\* The status an Upsert gives the warning it matched: a Resolved warning
\* that is seen again is New, any other status stays.
NewStatus(status) == IF status = StatusResolved THEN StatusNew ELSE status

\* UpsertWarning once the type code is known to be registered: the
\* validation of the entity, the query of the tuple, then the update of the
\* one match or the creation of a new warning.
UpsertWarningOfKnownType(w, nodeName, projectName, entityType, entityID, typeCode, message) ==
    LET now == w.now + 1
        entityErr == IF entityType # "" THEN cluster_GetEntityURL(entityType, entityID)
                     ELSE NoError
        t1 == IF entityType # "" THEN <<"GetEntityURL">> ELSE <<>>
        t2 == Append(t1, "GetWarnings")
        hit == cluster_GetWarnings(w.rows, [TypeCode |-> typeCode, Node |-> nodeName,
                                            Project |-> projectName,
                                            EntityType |-> entityType,
                                            EntityID |-> entityID])
        one == CHOOSE r \in hit : TRUE
        newStatus == NewStatus(one.Status)
        u == ClusterTx_UpdateWarningState(w, one.UUID, message, newStatus)
        warning == [Node |-> nodeName, Project |-> projectName, EntityType |-> entityType,
                    EntityID |-> entityID, UUID |-> w.nextUUID, TypeCode |-> typeCode,
                    Status |-> StatusNew, FirstSeenDate |-> now, LastSeenDate |-> now,
                    UpdatedDate |-> 0, LastMessage |-> message, Count |-> 1]
        c == ClusterTx_createWarning(w, warning)
    IN  IF entityErr # NoError
        THEN [err |-> Wrapf("Failed to validate warning", entityErr), trace |-> t1, w |-> w]
        ELSE IF Cardinality(hit) > 1
        THEN [err |-> Errorf("More than one warnings (%d) match the criteria"),
              trace |-> t2, w |-> w]
        ELSE IF Cardinality(hit) = 1
        THEN [err |-> u.err, trace |-> Append(t2, "UPDATE"), w |-> u.w]
        ELSE [err |-> c.err, trace |-> t2 \o c.trace, w |-> c.w]

\* An upsert that does not look the type code up.
UpsertWarningOfAnyType(w, nodeName, projectName, entityType, entityID, typeCode, message) ==
    UpsertWarningOfKnownType(w, nodeName, projectName, entityType, entityID, typeCode, message)

ClusterTx_UpsertWarning(w, nodeName, projectName, entityType, entityID, typeCode, message) ==
    IF typeCode \notin TypeNames
    THEN [err |-> Errorf("Unknown warning type code %d"), trace |-> <<>>, w |-> w]
    ELSE UpsertWarningOfKnownType(w, nodeName, projectName, entityType, entityID,
                                  typeCode, message)

\* The arguments of the Upsert calls: a warning about an instance, one
\* about nothing in particular, and calls naming a member, a project, an
\* entity or a type code that does not exist.
WarningArgs(node, project, entityType, entityID, typeCode) ==
    [Node |-> node, Project |-> project, EntityType |-> entityType,
     EntityID |-> entityID, TypeCode |-> typeCode]

UpsertArgs ==
    {WarningArgs("m1", "p1", "instance", 1, 1),
     WarningArgs("", "", "", -1, 1),
     WarningArgs("m9", "p1", "", -1, 1),
     WarningArgs("m1", "p9", "", -1, 1),
     WarningArgs("m1", "p1", "instance", 9, 1),
     WarningArgs("m1", "p1", "instance", 1, 99)}

Messages == {"a", "b"}

Statuses == {StatusNew, StatusAcknowledged, StatusResolved}

\* The UUIDs drawn so far and one that was never drawn.
UUIDs == 1..(MaxClock + 1)

WarnInit ==
    /\ warnings = WarningsEmpty
    /\ warnLast = WarnLastIdle
    /\ files = {}
    /\ userNS = FALSE
    /\ runConf = EmptyRunConf
    /\ last = [op |-> "idle"]
    /\ filter = FilterIdle
    /\ picked = PickedIdle
    /\ db = DbEmpty
    /\ dbLast = DbLastIdle
    /\ hosts = {}
    /\ dhcpLast = DhcpLastIdle
    /\ procs = ProcsIdle
    /\ lock = LockIdle
    /\ clusterConf = ClusterConfEmpty
    /\ confLast = ConfLastIdle

UpsertWarning(a, message) ==
    LET r == ClusterTx_UpsertWarning(warnings, a.Node, a.Project, a.EntityType,
                                     a.EntityID, a.TypeCode, message)
    IN  /\ warnLast.op = "none"
        /\ r.w.now <= MaxClock
        /\ warnings' = r.w
        /\ warnLast' = [op |-> "UpsertWarning", args |-> a, message |-> message,
                        err |-> r.err, trace |-> r.trace, pre |-> warnings]
        /\ UNCHANGED <<devVars, filterVars, dbVars, dhcpVars, confVars, sibVars>>

UpdateWarningStatus(UUID, status) ==
    LET r == ClusterTx_UpdateWarningStatus(warnings, UUID, status)
    IN  /\ warnLast.op = "none"
        /\ r.w.now <= MaxClock
        /\ warnings' = r.w
        /\ warnLast' = [op |-> "UpdateWarningStatus", UUID |-> UUID, status |-> status,
                        err |-> r.err, pre |-> warnings]
        /\ UNCHANGED <<devVars, filterVars, dbVars, dhcpVars, confVars, sibVars>>

\* The caller takes the result.
WarnReturn ==
    /\ warnLast.op # "none"
    /\ warnLast' = WarnLastIdle
    /\ UNCHANGED <<warnings, devVars, filterVars, dbVars, dhcpVars, confVars, sibVars>>

WarnNext ==
    \/ \E a \in UpsertArgs, message \in Messages : UpsertWarning(a, message)
    \/ \E UUID \in UUIDs, status \in Statuses : UpdateWarningStatus(UUID, status)
    \/ WarnReturn

SpecWarn == WarnInit /\ [][WarnNext]_vars

\* The same calls over a table that was filled from outside Upsert: any
\* two warnings, which may be about the same thing.
SeedWarning(UUID, a, status) ==
    [Node |-> a.Node, Project |-> a.Project, EntityType |-> a.EntityType,
     EntityID |-> a.EntityID, UUID |-> UUID, TypeCode |-> a.TypeCode,
     Status |-> status, FirstSeenDate |-> 0, LastSeenDate |-> 0,
     UpdatedDate |-> 0, LastMessage |-> "a", Count |-> 1]

SeedWarnings ==
    {rows \in SUBSET {SeedWarning(UUID, a, status) :
                          UUID \in 1..2,
                          a \in {WarningArgs("m1", "p1", "instance", 1, 1),
                                 WarningArgs("", "", "", -1, 1)},
                          status \in {StatusNew, StatusResolved}} :
        \A x, y \in rows : x.UUID = y.UUID => x = y}

WarnSeededInit ==
    /\ \E rows \in SeedWarnings : warnings = [rows |-> rows, now |-> 0, nextUUID |-> 3]
    /\ warnLast = WarnLastIdle
    /\ files = {}
    /\ userNS = FALSE
    /\ runConf = EmptyRunConf
    /\ last = [op |-> "idle"]
    /\ filter = FilterIdle
    /\ picked = PickedIdle
    /\ db = DbEmpty
    /\ dbLast = DbLastIdle
    /\ hosts = {}
    /\ dhcpLast = DhcpLastIdle
    /\ procs = ProcsIdle
    /\ lock = LockIdle
    /\ clusterConf = ClusterConfEmpty
    /\ confLast = ConfLastIdle

WarnSeededNext ==
    \/ \E a \in UpsertArgs, message \in Messages : UpsertWarning(a, message)
    \/ WarnReturn

SpecWarnSeeded == WarnSeededInit /\ [][WarnSeededNext]_vars

(***************************************************************************)
(* Static DHCP allocations of dnsmasq: one file per instance device in the *)
(* dnsmasq.hosts directory of the network.  A string is the sequence of    *)
(* its separator characters (",", ".", ":", "[", "]", the newline) and of  *)
(* the runs of other characters between them, so that the line is built    *)
(* and taken apart as the code does it.                                    *)
(***************************************************************************)
NewLine == "\n"

\* A lowering that keeps the case.
KeepCase(str) == str

\* strings.ToLower on the runs of hexadecimal digits used here.
ToLower(str) ==
    [i \in 1..Len(str) |-> CASE str[i] = "AA" -> "aa"
                             [] str[i] = "FD42" -> "fd42"
                             [] OTHER -> str[i]]

\* strings.Count for a one-character substring.
RECURSIVE Count(_, _)
Count(str, c) ==
    IF str = <<>> THEN 0
    ELSE (IF Head(str) = c THEN 1 ELSE 0) + Count(Tail(str), c)

HasSuffix(str, suffix) ==
    /\ Len(suffix) <= Len(str)
    /\ SubSeq(str, Len(str) - Len(suffix) + 1, Len(str)) = suffix

\* strings.Split for a one-character separator: the pieces, in order.
RECURSIVE Split(_, _)
Split(str, sep) ==
    IF \E i \in 1..Len(str) : str[i] = sep
    THEN LET i == CHOOSE k \in 1..Len(str) :
                      str[k] = sep /\ \A j \in 1..(k - 1) : str[j] # sep
         IN  <<SubSeq(str, 1, i - 1)>> \o Split(SubSeq(str, i + 1, Len(str)), sep)
    ELSE <<str>>

\* bufio.Scanner with ScanLines: the lines of a file, without a last empty
\* piece after the final newline.
ScanLines(content) ==
    LET pieces == Split(content, NewLine)
    IN  IF pieces[Len(pieces)] = <<>> THEN SubSeq(pieces, 1, Len(pieces) - 1) ELSE pieces

\* net.IP values: the family and the address in canonical form; NilIP is
\* the nil slice.
NilIP == [family |-> 0, addr |-> ""]

\* net.ParseIP on the texts used here.  The text of an IPv6 address may end
\* in a dotted quad (RFC 4291 2.2.3) and may be in upper case; anything
\* else, a bracketed text included, does not parse.
ParseIP(str) ==
    CASE str = <<"10", ".", "0", ".", "0", ".", "5">> -> [family |-> 4, addr |-> "10.0.0.5"]
      [] str = <<"10", ".", "0", ".", "0", ".", "6">> -> [family |-> 4, addr |-> "10.0.0.6"]
      [] str = <<"fd42", ":", ":", "1">> -> [family |-> 6, addr |-> "fd42::1"]
      [] str = <<"FD42", ":", ":", "1">> -> [family |-> 6, addr |-> "fd42::1"]
      [] str = <<"64", ":", "ff9b", ":", ":", "10", ".", "0", ".", "0", ".", "5">>
            -> [family |-> 6, addr |-> "64:ff9b::a00:5"]
      [] OTHER -> NilIP

\* IP.To4: the 4-byte form of an IPv4 address, nil for any other.
To4(IP) == IF IP.family = 4 THEN IP ELSE NilIP

\* net.HardwareAddr values: the six bytes; NilMAC is the nil slice.
NilMAC == <<>>

HexPairs == {"aa", "AA", "bb", "cc", "dd", "ee", "ff"}

\* net.ParseMAC on the colon form: six pairs of hexadecimal digits.
ParseMAC(str) ==
    IF /\ Len(str) = 11
       /\ \A i \in 1..11 : IF i % 2 = 1 THEN str[i] \in HexPairs ELSE str[i] = ":"
    THEN [err |-> NoError, mac |-> [i \in 1..6 |-> ToLower(<<str[2 * i - 1]>>)[1]]]
    ELSE [err |-> Errorf("invalid MAC address"), mac |-> NilMAC]

\* project.Instance and project.DNS: the instance name alone in the default
\* project, joined with the project name in any other.
project_Instance(projectName, instanceName) ==
    IF projectName = <<"default">> THEN instanceName
    ELSE projectName \o <<"_">> \o instanceName

project_DNS(projectName, instanceName) ==
    IF projectName = <<"default">> THEN instanceName
    ELSE instanceName \o <<".">> \o projectName

StaticAllocationFileName(projectName, instanceName, deviceName) ==
    project_Instance(projectName, instanceName) \o <<".">> \o PathNameEncode(deviceName)

\* netConfig[key]: the value, or "" when the key is not set.
MapGet(netConfig, key) == IF key \in DOMAIN netConfig THEN netConfig[key] ELSE ""

\* The files of the directory other than name.
OtherFiles(dir, name) == {f \in dir : f.name # name}

\* A writer that writes the line also when it is the MAC alone.
UpdateStaticEntryAlways(dir, projectName, instanceName, deviceName, netConfig, hwaddr, ipv4Address, ipv6Address, ioOK) ==
    [err |-> NoError,
     dir |-> OtherFiles(dir, StaticAllocationFileName(projectName, instanceName, deviceName))
             \cup {[name |-> StaticAllocationFileName(projectName, instanceName, deviceName),
                    content |-> ToLower(hwaddr) \o <<NewLine>>]}]

\* UpdateStaticEntry: the line, and the file os.WriteFile replaces.  ioOK
\* is whether the write succeeds (the directory exists and is writable).
UpdateStaticEntry(dir, projectName, instanceName, deviceName, netConfig, hwaddr, ipv4Address, ipv6Address, ioOK) ==
    LET lower == ToLower(hwaddr)
        line1 == IF ipv4Address # <<>> THEN lower \o <<",">> \o ipv4Address ELSE lower
        line2 == IF ipv6Address # <<>>
                 THEN line1 \o <<",", "[">> \o ipv6Address \o <<"]">> ELSE line1
        line3 == IF MapGet(netConfig, "dns.mode") = "" \/ MapGet(netConfig, "dns.mode") = "managed"
                 THEN line2 \o <<",">> \o project_DNS(projectName, instanceName) ELSE line2
        deviceStaticFileName == StaticAllocationFileName(projectName, instanceName, deviceName)
    IN  IF line3 = lower THEN [err |-> NoError, dir |-> dir]
        ELSE IF ~ioOK THEN [err |-> Errorf("open: no such file or directory"), dir |-> dir]
        ELSE [err |-> NoError,
              dir |-> OtherFiles(dir, deviceStaticFileName)
                      \cup {[name |-> deviceStaticFileName,
                             content |-> line3 \o <<NewLine>>]}]

\* RemoveStaticEntry: a file that does not exist is not an error.
RemoveStaticEntry(dir, projectName, instanceName, deviceName, ioOK) ==
    LET deviceStaticFileName == StaticAllocationFileName(projectName, instanceName, deviceName)
    IN  IF (\E f \in dir : f.name = deviceStaticFileName) /\ ~ioOK
        THEN [err |-> Errorf("remove: permission denied"), dir |-> dir]
        ELSE [err |-> NoError, dir |-> OtherFiles(dir, deviceStaticFileName)]

\* DHCPAllocation{}: the zero value.
NoAllocation == [IP |-> NilIP, StaticFileName |-> <<>>, MAC |-> NilMAC]

\* The result of a failed read.
ReadFailed(acc, err) == [mac |-> NilMAC, IPv4 |-> acc.IPv4, IPv6 |-> acc.IPv6, err |-> err]

\* One field of a line: an IPv4 address by its three dots, an IPv6 address
\* by its brackets, a MAC by its five colons, anything else is skipped.
ReadField(acc, field, deviceStaticFileName) ==
    IF Count(field, ".") = 3
    THEN IF To4(ParseIP(field)) = NilIP
         THEN ReadFailed(acc, Errorf("Error parsing IP address %q"))
         ELSE [acc EXCEPT !.IPv4 = [StaticFileName |-> deviceStaticFileName,
                                    IP |-> To4(ParseIP(field)), MAC |-> acc.mac]]
    ELSE IF HasPrefix(field, <<"[">>) /\ HasSuffix(field, <<"]">>)
    THEN IF ParseIP(SubSeq(field, 2, Len(field) - 1)) = NilIP
         THEN ReadFailed(acc, Errorf("Error parsing IP address %q"))
         ELSE [acc EXCEPT !.IPv6 = [StaticFileName |-> deviceStaticFileName,
                                    IP |-> ParseIP(SubSeq(field, 2, Len(field) - 1)),
                                    MAC |-> acc.mac]]
    ELSE IF Count(field, ":") = 5
    THEN IF ParseMAC(field).err # NoError
         THEN ReadFailed(acc, Errorf("Error parsing MAC address %q"))
         ELSE [acc EXCEPT !.mac = ParseMAC(field).mac]
    ELSE acc

\* The fields of the lines, in order; the first failure ends the read.
RECURSIVE ReadFields(_, _, _)
ReadFields(acc, fields, deviceStaticFileName) ==
    IF fields = <<>> \/ acc.err # NoError THEN acc
    ELSE ReadFields(ReadField(acc, Head(fields), deviceStaticFileName), Tail(fields),
                    deviceStaticFileName)

RECURSIVE ReadLines(_, _, _)
ReadLines(acc, lines, deviceStaticFileName) ==
    IF lines = <<>> \/ acc.err # NoError THEN acc
    ELSE ReadLines(ReadFields(acc, Split(Head(lines), ","), deviceStaticFileName),
                   Tail(lines), deviceStaticFileName)

DHCPStaticAllocation(dir, deviceStaticFileName) ==
    LET zero == [mac |-> NilMAC, IPv4 |-> NoAllocation, IPv6 |-> NoAllocation,
                 err |-> NoError]
    IN  IF ~\E f \in dir : f.name = deviceStaticFileName
        THEN ReadFailed(zero, Errorf("open: no such file or directory"))
        ELSE ReadLines(zero,
                       ScanLines((CHOOSE f \in dir : f.name = deviceStaticFileName).content),
                       deviceStaticFileName)

\* A map keyed by IP: the entries, one per key.
MapPut(m, key, alloc) == {e \in m : e.key # key} \cup {[key |-> key, alloc |-> alloc]}

\* m[key]: the allocation, or the zero value when the key is not set.
MapAt(m, key) ==
    IF \E e \in m : e.key = key THEN (CHOOSE e \in m : e.key = key).alloc ELSE NoAllocation

\* os.ReadDir sorts by file name; the names here start with "p1_" or "web1".
RECURSIVE SortHostNames(_)
SortHostNames(names) ==
    IF names = {} THEN <<>>
    ELSE LET first == CHOOSE n \in names : \A o \in names : n[1] = "p1" \/ o[1] # "p1"
         IN  <<first>> \o SortHostNames(names \ {first})

\* The loop over the static files: each file's allocations are put under
\* their IP; a file that does not read ends the call.
RECURSIVE ReadStatics(_, _, _)
ReadStatics(acc, dir, names) ==
    IF names = <<>> \/ acc.err # NoError THEN acc
    ELSE LET r == DHCPStaticAllocation(dir, Head(names))
             v4 == IF r.IPv4.IP # NilIP THEN MapPut(acc.IPv4s, r.IPv4.IP.addr, r.IPv4)
                   ELSE acc.IPv4s
             v6 == IF r.IPv6.IP # NilIP THEN MapPut(acc.IPv6s, r.IPv6.IP.addr, r.IPv6)
                   ELSE acc.IPv6s
         IN  IF r.err # NoError THEN [err |-> r.err, IPv4s |-> {}, IPv6s |-> {}]
             ELSE ReadStatics([err |-> NoError, IPv4s |-> v4, IPv6s |-> v6], dir, Tail(names))

\* strings.Fields: the pieces between the blanks, empty pieces dropped.
Fields(str) == SelectSeq(Split(str, " "), LAMBDA piece : piece # <<>>)

\* A lease line that replaces what the map holds for its IP.
LeaseLineOverrides(acc, fields) ==
    IF Len(fields) # 5 THEN acc
    ELSE IF To4(ParseIP(fields[3])) = NilIP
    THEN [acc EXCEPT !.IPv6s = MapPut(@, ParseIP(fields[3]).addr,
                                      [NoAllocation EXCEPT !.IP = ParseIP(fields[3])])]
    ELSE [acc EXCEPT !.IPv4s = MapPut(@, ParseIP(fields[3]).addr,
                                      [NoAllocation EXCEPT !.IP = ParseIP(fields[3]),
                                                           !.MAC = ParseMAC(fields[2]).mac])]

\* One line of the lease file: five fields, the second the MAC, the third
\* the IP; an IP that a static file allocated is left as it is.
LeaseLine(acc, fields) ==
    IF Len(fields) # 5 THEN acc
    ELSE IF ParseIP(fields[3]) = NilIP
    THEN [err |-> Errorf("Error parsing IP address: %v"), IPv4s |-> {}, IPv6s |-> {}]
    ELSE IF To4(ParseIP(fields[3])) = NilIP
    THEN IF MapAt(acc.IPv6s, ParseIP(fields[3]).addr).StaticFileName # <<>> THEN acc
         ELSE [acc EXCEPT !.IPv6s = MapPut(@, ParseIP(fields[3]).addr,
                                           [NoAllocation EXCEPT !.IP = ParseIP(fields[3])])]
    ELSE IF ParseMAC(fields[2]).err # NoError
    THEN [err |-> ParseMAC(fields[2]).err, IPv4s |-> {}, IPv6s |-> {}]
    ELSE IF MapAt(acc.IPv4s, ParseIP(fields[3]).addr).StaticFileName # <<>> THEN acc
    ELSE [acc EXCEPT !.IPv4s = MapPut(@, ParseIP(fields[3]).addr,
                                      [NoAllocation EXCEPT !.IP = To4(ParseIP(fields[3])),
                                                           !.MAC = ParseMAC(fields[2]).mac])]

RECURSIVE ReadLeases(_, _)
ReadLeases(acc, lines) ==
    IF lines = <<>> \/ acc.err # NoError THEN acc
    ELSE ReadLeases(LeaseLine(acc, Fields(Head(lines))), Tail(lines))

\* DHCPAllAllocations.  readDir is the outcome of os.ReadDir: "ok",
\* "notexist", or "error" for any other failure, which the code does not
\* test for: the loop then runs over no entries.  leases is the lease file.
DHCPAllAllocations(dir, readDir, leases) ==
    LET zero == [err |-> NoError, IPv4s |-> {}, IPv6s |-> {}]
        entries == IF readDir = "ok" THEN SortHostNames({f.name : f \in dir}) ELSE <<>>
        statics == ReadStatics(zero, dir, entries)
    IN  IF readDir = "notexist"
        THEN [err |-> Errorf("open: no such file or directory"), IPv4s |-> {}, IPv6s |-> {}]
        ELSE IF statics.err # NoError THEN statics
        ELSE IF ~leases.exists
        THEN [err |-> Errorf("open: no such file or directory"), IPv4s |-> {}, IPv6s |-> {}]
        ELSE ReadLeases(statics, ScanLines(leases.content))

\* The arguments of the calls: one instance in the default project and one
\* in project p1, each with the device eth0.
ProjectNames == {<<"default">>, <<"p1">>}

InstanceName == <<"web1">>

DeviceName == <<"eth0">>

NetConfigs ==
    {[k \in {} |-> ""], [k \in {"dns.mode"} |-> "managed"], [k \in {"dns.mode"} |-> "dynamic"]}

HwAddrs ==
    {<<"aa", ":", "bb", ":", "cc", ":", "dd", ":", "ee", ":", "ff">>,
     <<"AA", ":", "bb", ":", "cc", ":", "dd", ":", "ee", ":", "ff">>}

IPv4Addresses == {<<>>, <<"10", ".", "0", ".", "0", ".", "5">>}

IPv6Addresses ==
    {<<>>, <<"fd42", ":", ":", "1">>,
     <<"64", ":", "ff9b", ":", ":", "10", ".", "0", ".", "0", ".", "5">>}

\* Lease lines: a lease of 10.0.0.5, of 10.0.0.6 and of fd42::1, and a line
\* of three fields.
LeaseLines ==
    {<<"1700", " ", "aa", ":", "bb", ":", "cc", ":", "dd", ":", "ee", ":", "ee", " ",
       "10", ".", "0", ".", "0", ".", "5", " ", "other", " ", "*">>,
     <<"1700", " ", "aa", ":", "bb", ":", "cc", ":", "dd", ":", "ee", ":", "ff", " ",
       "10", ".", "0", ".", "0", ".", "6", " ", "web1", " ", "*">>,
     <<"1700", " ", "00", " ", "fd42", ":", ":", "1", " ", "other", " ", "*">>,
     <<"duid", " ", "00", ":", "01">>}

\* The lease file: absent, empty, or one or two of the lines in any order.
LeaseFiles ==
    {[exists |-> FALSE, content |-> <<>>], [exists |-> TRUE, content |-> <<>>]}
    \cup {[exists |-> TRUE, content |-> l \o <<NewLine>>] : l \in LeaseLines}
    \cup {[exists |-> TRUE, content |-> p[1] \o <<NewLine>> \o p[2] \o <<NewLine>>] :
              p \in {q \in LeaseLines \X LeaseLines : q[1] # q[2]}}

ReadDirOutcomes == {"ok", "notexist", "error"}

DhcpInit ==
    /\ hosts = {}
    /\ dhcpLast = DhcpLastIdle
    /\ procs = ProcsIdle
    /\ lock = LockIdle
    /\ clusterConf = ClusterConfEmpty
    /\ confLast = ConfLastIdle
    /\ files = {}
    /\ userNS = FALSE
    /\ runConf = EmptyRunConf
    /\ last = [op |-> "idle"]
    /\ filter = FilterIdle
    /\ picked = PickedIdle
    /\ db = DbEmpty
    /\ dbLast = DbLastIdle
    /\ warnings = WarningsEmpty
    /\ warnLast = WarnLastIdle

Write(projectName, netConfig, hwaddr, ipv4Address, ipv6Address, ioOK) ==
    LET r == UpdateStaticEntry(hosts, projectName, InstanceName, DeviceName, netConfig,
                               hwaddr, ipv4Address, ipv6Address, ioOK)
    IN  /\ dhcpLast.op = "none"
        /\ hosts' = r.dir
        /\ dhcpLast' = [op |-> "UpdateStaticEntry",
                        name |-> StaticAllocationFileName(projectName, InstanceName,
                                                          DeviceName),
                        projectName |-> projectName, netConfig |-> netConfig,
                        hwaddr |-> hwaddr, ipv4Address |-> ipv4Address,
                        ipv6Address |-> ipv6Address, err |-> r.err, pre |-> hosts]
        /\ UNCHANGED <<devVars, filterVars, dbVars, warnVars, confVars, sibVars>>

RemoveStatic(projectName, ioOK) ==
    LET r == RemoveStaticEntry(hosts, projectName, InstanceName, DeviceName, ioOK)
    IN  /\ dhcpLast.op = "none"
        /\ hosts' = r.dir
        /\ dhcpLast' = [op |-> "RemoveStaticEntry",
                        name |-> StaticAllocationFileName(projectName, InstanceName,
                                                          DeviceName),
                        err |-> r.err, pre |-> hosts]
        /\ UNCHANGED <<devVars, filterVars, dbVars, warnVars, confVars, sibVars>>

Read(projectName) ==
    LET name == StaticAllocationFileName(projectName, InstanceName, DeviceName)
        r == DHCPStaticAllocation(hosts, name)
    IN  /\ dhcpLast.op = "none"
        /\ dhcpLast' = [op |-> "DHCPStaticAllocation", name |-> name, mac |-> r.mac,
                        IPv4 |-> r.IPv4, IPv6 |-> r.IPv6, err |-> r.err, pre |-> hosts]
        /\ UNCHANGED <<hosts, devVars, filterVars, dbVars, warnVars, confVars, sibVars>>

ReadAll(readDir, leases) ==
    LET r == DHCPAllAllocations(hosts, readDir, leases)
    IN  /\ dhcpLast.op = "none"
        /\ readDir = "notexist" => hosts = {}
        /\ dhcpLast' = [op |-> "DHCPAllAllocations", readDir |-> readDir,
                        leases |-> leases, IPv4s |-> r.IPv4s, IPv6s |-> r.IPv6s,
                        err |-> r.err, pre |-> hosts]
        /\ UNCHANGED <<hosts, devVars, filterVars, dbVars, warnVars, confVars, sibVars>>

\* The caller takes the result.
DhcpReturn ==
    /\ dhcpLast.op # "none"
    /\ dhcpLast' = DhcpLastIdle
    /\ UNCHANGED <<hosts, devVars, filterVars, dbVars, warnVars, confVars, sibVars>>

DhcpNext ==
    \/ \E projectName \in ProjectNames, netConfig \in NetConfigs, hwaddr \in HwAddrs,
          ipv4Address \in IPv4Addresses, ipv6Address \in IPv6Addresses, ioOK \in BOOLEAN :
            Write(projectName, netConfig, hwaddr, ipv4Address, ipv6Address, ioOK)
    \/ \E projectName \in ProjectNames, ioOK \in BOOLEAN : RemoveStatic(projectName, ioOK)
    \/ \E projectName \in ProjectNames : Read(projectName)
    \/ \E readDir \in ReadDirOutcomes, leases \in LeaseFiles : ReadAll(readDir, leases)
    \/ DhcpReturn

SpecDhcp == DhcpInit /\ [][DhcpNext]_vars

(***************************************************************************)
(* The cluster configuration (lxd/cluster/config).  A map[string]string is *)
(* a set of entries with distinct keys.  The configuration holds the       *)
(* values in memory and writes them to the config table of the cluster     *)
(* database; the table is written through the configuration only, as in    *)
(* the tests of Replace and Patch.                                         *)
(***************************************************************************)
ConfigKeys == {"core.proxy_http", "cluster.offline_threshold", "cluster.max_voters"}

Keys(m) == {e.key : e \in m}

\* m[key]: the value, or "" when the key is not set.
Value(m, key) == IF \E e \in m : e.key = key THEN (CHOOSE e \in m : e.key = key).value ELSE ""

\* The values of base with the entries of m laid over them.
Merge(base, m) == {e \in base : e.key \notin Keys(m)} \cup m

\* strconv.Atoi on the values the tests and the inputs use.
Atoi(v) == CASE v = "2" -> 2 [] v = "4" -> 4 [] v = "5" -> 5 [] v = "30" -> 30 [] OTHER -> 0

\* The validator of the key: "" when the value is accepted.
Validate(key, value) ==
    CASE key = "cluster.offline_threshold" ->
             IF Atoi(value) > 10 THEN "" ELSE "Value must be greater than 10"
      [] key = "cluster.max_voters" ->
             IF Atoi(value) >= 3 /\ Atoi(value) % 2 = 1 THEN ""
             ELSE "Value must be an odd number equal to or higher than 3"
      [] key \in ConfigKeys -> ""
      [] OTHER -> "unknown key"

\* Load: the table's entries, the invalid ones ignored.
Config_Load(conf) ==
    [conf |-> [conf EXCEPT !.values = {e \in conf.table : Validate(e.key, e.value) = ""}],
     changed |-> {}, err |-> NoError]

\* tx.UpdateClusterConfig: an entry with an empty value deletes the key.
UpdateClusterConfig(table, changed) ==
    {e \in table : e.key \notin Keys(changed)} \cup {e \in changed : e.value # ""}

\* The common part of Replace and Patch: validate the new values, work out
\* what changed against the values in memory, and persist the changes.  A
\* key that was set and is not among the new values changes to "".
Config_update(conf, values) ==
    LET rejected == {e \in values : Validate(e.key, e.value) # ""}
        changed == {e \in values : Value(conf.values, e.key) # e.value}
                   \cup {[key |-> k, value |-> ""] : k \in Keys(conf.values) \ Keys(values)}
    IN  IF rejected # {}
        THEN [conf |-> conf, changed |-> {},
              err |-> Errorf({<<"Cannot set", e.key, e.value, Validate(e.key, e.value)>> : e \in rejected})]
        ELSE [conf |-> [values |-> values, table |-> UpdateClusterConfig(conf.table, changed)],
              changed |-> changed, err |-> NoError]

\* A Replace that keeps the keys it is not given.
ReplaceMerging(conf, m) == Config_update(conf, Merge(conf.values, m))

\* A Patch that drops the keys it is not given.
PatchReplacing(conf, m) == Config_update(conf, m)

\* Replace: the given values become the whole configuration.
Config_Replace(conf, m) == Config_update(conf, m)

\* Patch: the given values are laid over the current ones.
Config_Patch(conf, m) == Config_update(conf, Merge(conf.values, m))

\* The entries the calls are given: for each key a value its validator
\* accepts and, where there is a validator, one it rejects.
ConfigEntries ==
    {[key |-> "core.proxy_http", value |-> "foo.bar"], [key |-> "core.proxy_http", value |-> "baz"],
     [key |-> "cluster.offline_threshold", value |-> "2"], [key |-> "cluster.offline_threshold", value |-> "30"],
     [key |-> "cluster.max_voters", value |-> "4"], [key |-> "cluster.max_voters", value |-> "5"]}

ConfigMaps == {m \in SUBSET ConfigEntries : \A e \in m, f \in m : e.key = f.key => e = f}

ConfInit ==
    /\ clusterConf = ClusterConfEmpty
    /\ confLast = ConfLastIdle
    /\ hosts = {}
    /\ dhcpLast = DhcpLastIdle
    /\ procs = ProcsIdle
    /\ lock = LockIdle
    /\ files = {}
    /\ userNS = FALSE
    /\ runConf = EmptyRunConf
    /\ last = [op |-> "idle"]
    /\ filter = FilterIdle
    /\ picked = PickedIdle
    /\ db = DbEmpty
    /\ dbLast = DbLastIdle
    /\ warnings = WarningsEmpty
    /\ warnLast = WarnLastIdle

ConfDone(op, m, r) ==
    /\ clusterConf' = r.conf
    /\ confLast' = [op |-> op, m |-> m, changed |-> r.changed, err |-> r.err, pre |-> clusterConf]
    /\ UNCHANGED <<devVars, filterVars, dbVars, warnVars, dhcpVars, sibVars>>

Load ==
    /\ confLast = ConfLastIdle
    /\ ConfDone("Load", {}, Config_Load(clusterConf))

Replace ==
    /\ confLast = ConfLastIdle
    /\ \E m \in ConfigMaps : ConfDone("Replace", m, Config_Replace(clusterConf, m))

Patch ==
    /\ confLast = ConfLastIdle
    /\ \E m \in ConfigMaps : ConfDone("Patch", m, Config_Patch(clusterConf, m))

ConfReturn ==
    /\ confLast # ConfLastIdle
    /\ confLast' = ConfLastIdle
    /\ UNCHANGED <<clusterConf, devVars, filterVars, dbVars, warnVars, dhcpVars, sibVars>>

ConfNext ==
    \/ Load
    \/ Replace
    \/ Patch
    \/ ConfReturn

SpecConfig == ConfInit /\ [][ConfNext]_vars

(***************************************************************************)
(* Two sibling devices with the same destination path, from Setup to       *)
(* DeleteFiles.  Setup is taken in its two steps, the scan of the devices  *)
(* directory and the creation of the host node, so that the calls of the   *)
(* two devices interleave; Remove and DeleteFiles are one step each.  The  *)
(* calls append to one RunConfig.  The engine itself takes no lock: the    *)
(* lock is the one its callers are asked to hold, and lock.on says whether *)
(* they do.                                                                *)
(***************************************************************************)
Siblings == {pair \in SUBSET DeviceNames : Cardinality(pair) = 2}

\* A Setup may start: callers that do not lock always enter.
CanEnter(l) == ~l.on \/ l.holder = <<>>

\* unixDeviceSetup after the scan: create the host node, and append the
\* mount and the cgroup rule unless the scan found a duplicate.
SetupCreate(fs, ns, typePrefix, deviceName, m, defaultMode, io, rc, dupe) ==
    LET ourPrefix == deviceJoinPath(<<typePrefix, deviceName>>)
        c == UnixDeviceCreate(fs, ns, ourPrefix, m, defaultMode, io)
    IN  IF c.err # "" THEN [err |-> c.err, files |-> c.files, rc |-> rc]
        ELSE IF dupe THEN [err |-> "", files |-> c.files, rc |-> rc]
        ELSE [err |-> "", files |-> c.files,
              rc |-> [Mounts |-> Append(rc.Mounts, MountEntry(c.d)),
                      CGroups |-> Append(rc.CGroups,
                          CGroupRule("devices.allow", c.d.Type, c.d.Major, c.d.Minor))]]

SibInit ==
    /\ \E pair \in Siblings, p \in DestPaths :
           procs = [n \in pair |-> [pc |-> "new", dupe |-> FALSE, m |-> Config(p, "unix-char", "", "")]]
    /\ \E on \in BOOLEAN : lock = [on |-> on, holder |-> <<>>]
    /\ files = {}
    /\ userNS = FALSE
    /\ runConf = EmptyRunConf
    /\ last = [op |-> "idle"]
    /\ filter = FilterIdle
    /\ picked = PickedIdle
    /\ db = DbEmpty
    /\ dbLast = DbLastIdle
    /\ warnings = WarningsEmpty
    /\ warnLast = WarnLastIdle
    /\ hosts = {}
    /\ dhcpLast = DhcpLastIdle
    /\ clusterConf = ClusterConfEmpty
    /\ confLast = ConfLastIdle

SibFrame == UNCHANGED <<userNS, last, filterVars, dbVars, warnVars, dhcpVars, confVars>>

\* The scan of unixDeviceSetup (the file names here all hold a ".").
SibSetupScan(n) ==
    LET ourEncRelDestFile == PathNameEncode(TrimPrefix(unixDeviceDestPath(procs[n].m), <<"/">>))
        scan == SetupScan(SortNames(FileNames(files)), ourEncRelDestFile)
    IN  /\ procs[n].pc = "new"
        /\ CanEnter(lock)
        /\ procs' = [procs EXCEPT ![n].pc = "scanned", ![n].dupe = (scan = "dupe")]
        /\ lock' = [lock EXCEPT !.holder = IF lock.on THEN n ELSE <<>>]
        /\ UNCHANGED <<files, runConf>>
        /\ SibFrame

\* The rest of unixDeviceSetup; the host does nothing wrong.
SibSetupCreate(n) ==
    LET r == SetupCreate(files, userNS, TypePrefix, n, procs[n].m, TRUE, "ok", runConf, procs[n].dupe)
    IN  /\ procs[n].pc = "scanned"
        /\ files' = r.files
        /\ runConf' = r.rc
        /\ procs' = [procs EXCEPT ![n].pc = IF r.err = "" THEN "attached" ELSE "failed"]
        /\ lock' = [lock EXCEPT !.holder = <<>>]
        /\ SibFrame

\* unixDeviceRemove, once both devices are attached.
SibRemove(n) ==
    LET r == unixDeviceRemove(files, TypePrefix, n, <<>>, runConf)
    IN  /\ procs[n].pc = "attached"
        /\ \A k \in DOMAIN procs : procs[k].pc \in {"attached", "removed", "deleted"}
        /\ runConf' = r.rc
        /\ procs' = [procs EXCEPT ![n].pc = IF r.err = "" THEN "removed" ELSE "failed"]
        /\ UNCHANGED <<files, lock>>
        /\ SibFrame

\* unixDeviceDeleteFiles, after the Remove of the same device.
SibDeleteFiles(n) ==
    LET r == unixDeviceDeleteFiles(files, TypePrefix, n, <<>>, <<>>)
    IN  /\ procs[n].pc = "removed"
        /\ files' = r.files
        /\ procs' = [procs EXCEPT ![n].pc = IF r.err = "" THEN "deleted" ELSE "failed"]
        /\ UNCHANGED <<runConf, lock>>
        /\ SibFrame

SibNext ==
    \/ \E n \in DOMAIN procs : SibSetupScan(n)
    \/ \E n \in DOMAIN procs : SibSetupCreate(n)
    \/ \E n \in DOMAIN procs : SibRemove(n)
    \/ \E n \in DOMAIN procs : SibDeleteFiles(n)

SpecSiblings == SibInit /\ [][SibNext]_vars

(***************************************************************************)
(* Two goroutines that write the host files of one network: each calls     *)
(* UpdateStaticEntry or RemoveStaticEntry for a device of its instance.    *)
(* The functions take no lock themselves; lock.on says whether their       *)
(* callers hold ConfigMutex around the call.                               *)
(***************************************************************************)
Writers == {<<"w1">>, <<"w2">>}

WriterNew ==
    [pc |-> "new", op |-> "none", projectName |-> <<>>, netConfig |-> [k \in {} |-> ""],
     ipv4Address |-> <<>>, err |-> NoError]

WriterHwaddr == <<"aa", ":", "bb", ":", "cc", ":", "dd", ":", "ee", ":", "ff">>

WriterNetConfigs == {[k \in {"dns.mode"} |-> "managed"], [k \in {"dns.mode"} |-> "dynamic"]}

WritersInit ==
    /\ procs = [n \in Writers |-> WriterNew]
    /\ \E on \in BOOLEAN : lock = [on |-> on, holder |-> <<>>]
    /\ files = {}
    /\ userNS = FALSE
    /\ runConf = EmptyRunConf
    /\ last = [op |-> "idle"]
    /\ filter = FilterIdle
    /\ picked = PickedIdle
    /\ db = DbEmpty
    /\ dbLast = DbLastIdle
    /\ warnings = WarningsEmpty
    /\ warnLast = WarnLastIdle
    /\ hosts = {}
    /\ dhcpLast = DhcpLastIdle
    /\ clusterConf = ClusterConfEmpty
    /\ confLast = ConfLastIdle

WritersFrame == UNCHANGED <<devVars, filterVars, dbVars, warnVars, dhcpLast, confVars>>

\* The call, up to the file operation: UpdateStaticEntry builds its line
\* and returns nil when the line is the MAC alone, else goes into
\* os.WriteFile; RemoveStaticEntry goes into os.Remove.  A caller that
\* locks has taken ConfigMutex before the call.
WriterCall(n, op, projectName, netConfig, ipv4Address) ==
    LET lineIsHwaddr == UpdateStaticEntry(hosts, projectName, InstanceName, DeviceName, netConfig,
                                          WriterHwaddr, ipv4Address, <<>>, FALSE).err = NoError
    IN  /\ procs[n].pc = "new"
        /\ CanEnter(lock)
        /\ lock' = [lock EXCEPT !.holder = IF lock.on THEN n ELSE <<>>]
        /\ procs' = [procs EXCEPT ![n] =
                         [pc |-> IF op = "RemoveStaticEntry" THEN "os.Remove"
                                 ELSE IF lineIsHwaddr THEN "returned" ELSE "os.WriteFile",
                          op |-> op, projectName |-> projectName, netConfig |-> netConfig,
                          ipv4Address |-> ipv4Address, err |-> NoError]]
        /\ UNCHANGED hosts
        /\ WritersFrame

\* The file operation and the return of its outcome.
WriterIO(n, ioOK) ==
    LET w == procs[n]
        r == IF w.pc = "os.WriteFile"
             THEN UpdateStaticEntry(hosts, w.projectName, InstanceName, DeviceName, w.netConfig,
                                    WriterHwaddr, w.ipv4Address, <<>>, ioOK)
             ELSE RemoveStaticEntry(hosts, w.projectName, InstanceName, DeviceName, ioOK)
    IN  /\ w.pc \in {"os.WriteFile", "os.Remove"}
        /\ hosts' = r.dir
        /\ procs' = [procs EXCEPT ![n].pc = "returned", ![n].err = r.err]
        /\ UNCHANGED lock
        /\ WritersFrame

\* The caller has the result; one that locks releases ConfigMutex.
WriterReturn(n) ==
    /\ procs[n].pc = "returned"
    /\ procs' = [procs EXCEPT ![n] = WriterNew]
    /\ lock' = [lock EXCEPT !.holder = IF @ = n THEN <<>> ELSE @]
    /\ UNCHANGED hosts
    /\ WritersFrame

WritersNext ==
    \/ \E n \in Writers, op \in {"UpdateStaticEntry", "RemoveStaticEntry"},
          projectName \in ProjectNames, netConfig \in WriterNetConfigs,
          ipv4Address \in IPv4Addresses :
            WriterCall(n, op, projectName, netConfig, ipv4Address)
    \/ \E n \in Writers, ioOK \in BOOLEAN : WriterIO(n, ioOK)
    \/ \E n \in Writers : WriterReturn(n)

SpecWriters == WritersInit /\ [][WritersNext]_vars

(***************************************************************************)
(* Claims about the device engine.                                         *)
(***************************************************************************)
\* The prefix under which the host files of a device are created.
PrefixOf(deviceName) == deviceJoinPath(<<TypePrefix, deviceName>>)

\* The host files a successful Create made for a device, and those made for
\* other devices with the same destination path as f.
FilesOf(fs, deviceName) == {f \in fs : f.dev = PrefixOf(deviceName)}

SiblingsOf(fs, f) == {g \in fs : g.dev # f.dev /\ g.dest = f.dest /\ g.complete}

AllComplete(fs) == \A f \in fs : f.complete

SetupAfterSibling ==
    /\ last.op = "setup"
    /\ last.err = ""
    /\ \E f \in last.pre : /\ f.dev # PrefixOf(last.name)
                           /\ f.dest = RelativeDestPath(last.m)
                           /\ f.complete

\* C1: a successful Setup of a device whose destination path is that of a
\* host file of another device creates its host node (Exists is true) and
\* appends no mount and no devices.allow entry.
C1_SetupDuplicateSuppressed ==
    SetupAfterSibling =>
        /\ UnixDeviceExists(files, PrefixOf(last.name), last.m.path)
        /\ runConf.Mounts = <<>>
        /\ runConf.CGroups = <<>>

RemoveWithSiblings ==
    /\ last.op = "remove"
    /\ AllComplete(last.pre)
    /\ FilesOf(last.pre, last.name) # {}
    /\ \A f \in FilesOf(last.pre, last.name) : SiblingsOf(last.pre, f) # {}

\* C2: Remove of a device all of whose host files have a sibling (a host
\* file of another device for the same destination path) appends no unmount
\* and no devices.deny entry.
C2_RemoveKeepsSharedMount ==
    RemoveWithSiblings => runConf.Mounts = <<>> /\ runConf.CGroups = <<>>

NoDot(path) == \A i \in 1..Len(path) : path[i] # "."

RemoveLastSibling ==
    /\ last.op = "remove"
    /\ last.opt = <<>>
    /\ AllComplete(last.pre)
    /\ \A g \in last.pre : NoDot(g.dest)
    /\ Cardinality(FilesOf(last.pre, last.name)) = 1
    /\ \A f \in FilesOf(last.pre, last.name) :
          \A g \in last.pre \ {f} : g.dest # f.dest

\* C3: Remove of a device whose one host file is the only one for its
\* destination path appends exactly one unmount entry, for that relative
\* path, and exactly one devices.deny entry, for that device node (stated
\* for destination paths without ".", whose file names Remove takes apart
\* at the right place).
C3_RemoveLastEmitsOne ==
    RemoveLastSibling =>
        \A f \in FilesOf(last.pre, last.name) :
            /\ runConf.Mounts = <<UnmountEntry(f.dest)>>
            /\ runConf.CGroups = <<CGroupRule("devices.deny", f.typ, f.major, f.minor)>>

Deleted == last.op = "delete" /\ last.err = ""

\* C26: a successful DeleteFiles of a device removes only host files that
\* were created for that device: every host file created for another
\* device name, one that the name is a string prefix of included, is still
\* there afterwards.
C26_DeleteKeepsOtherDevices ==
    Deleted => \A f \in last.pre : f.dev # PrefixOf(last.name) => f \in files

\* The same for the files of devices whose prefix does not start with the
\* prefix of the device deleted.
C26_DeleteKeepsUnlikeNames ==
    Deleted =>
        \A f \in last.pre : ~HasPrefix(f.dev, PrefixOf(last.name)) => f \in files

\* A DeleteFiles that removed a file of its device and kept another's.
C26_DeletedOwnKeptOther ==
    /\ Deleted
    /\ \E f \in last.pre : f.dev = PrefixOf(last.name) /\ f \notin files
    /\ \E f \in last.pre : f.dev # PrefixOf(last.name) /\ f \in files

Created == last.op = "create" /\ last.err = ""

InheritRequested(m) == m.inherit = "true"

\* The owner the config asks for: the explicit value if there is one, else
\* the host's if inheritance is requested, else 0.
OwnerAskedFor(explicit, host, m) ==
    IF explicit # "" THEN ParseNum(explicit)
    ELSE IF InheritRequested(m) THEN host ELSE 0

\* C28: Create resolves the ownership.  With inheritance requested, uid and
\* gid each come from the source device unless given in the config, and
\* then the value given is used; without inheritance each is the value
\* given, or 0.
C28_OwnershipResolved ==
    Created =>
        /\ last.d.UID = OwnerAskedFor(last.m.uid, HostStat.uid, last.m)
        /\ last.d.GID = OwnerAskedFor(last.m.gid, HostStat.gid, last.m)

\* The same, except for a value given together with inheritance.
C28_OwnershipResolvedApart ==
    Created =>
        /\ (last.m.uid = "" \/ ~InheritRequested(last.m)) =>
               last.d.UID = OwnerAskedFor(last.m.uid, HostStat.uid, last.m)
        /\ (last.m.gid = "" \/ ~InheritRequested(last.m)) =>
               last.d.GID = OwnerAskedFor(last.m.gid, HostStat.gid, last.m)

\* A Create with inheritance and one owner given, the other taken from the host.
C28_InheritedOneGivenOther ==
    /\ Created
    /\ InheritRequested(last.m)
    /\ last.m.uid = "" /\ last.m.gid # ""
    /\ last.d.UID = HostStat.uid

\* C29: the naming of the host files is reversible.  For every file name
\* Create produced, the part after the last "." is the encoded relative
\* destination path that Setup and Remove compare, and decoding it gives the
\* relative destination path back, whatever the path holds (".", "-", "/").
C29_NameReversible ==
    \A f \in files :
        /\ AfterLastDot(f.name) = PathNameEncode(f.dest)
        /\ PathNameDecode(AfterLastDot(f.name)) = f.dest

\* The same for destination paths without ".".
C29_NameReversibleNoDot ==
    \A f \in files :
        NoDot(f.dest) =>
            /\ AfterLastDot(f.name) = PathNameEncode(f.dest)
            /\ PathNameDecode(AfterLastDot(f.name)) = f.dest

\* A host file for a destination path with "/" in it.
C29_NestedPathNamed == \E f \in files : \E i \in 1..Len(f.dest) : f.dest[i] = "/"

\* C30: after a successful Create or Setup for a prefix and a destination
\* path Exists is true of them; after a successful DeleteFiles of a device
\* (all its files) Exists is false of every path a file of the device was
\* made for; and a call of Exists leaves the devices directory as it was.
C30_ExistsFollowsFiles ==
    /\ Created => UnixDeviceExists(files, last.prefix, unixDeviceDestPath(last.m))
    /\ (last.op = "setup" /\ last.err = "") =>
           UnixDeviceExists(files, PrefixOf(last.name), unixDeviceDestPath(last.m))
    /\ (Deleted /\ last.opt = <<>>) =>
           \A f \in FilesOf(last.pre, last.name) :
               ~UnixDeviceExists(files, PrefixOf(last.name), <<"/">> \o f.dest)
    /\ last.op = "exists" =>
           /\ files = last.pre
           /\ last.found = UnixDeviceExists(files, last.prefix, last.path)
           /\ last.found = (\E f \in files : f.dev = last.prefix /\ <<"/">> \o f.dest = last.path)

\* A Create made a file, a DeleteFiles removed a file it was asked to, and
\* an Exists found one.
C30_DeletedFileGone ==
    /\ Deleted
    /\ last.opt = <<>>
    /\ \E f \in FilesOf(last.pre, last.name) : f \notin files
    /\ files # {}

SetupOrRemove == last.op \in {"setup", "remove"}

\* C31: mount and cgroup instructions come in pairs.  Every Setup and every
\* Remove, failed or not, has appended as many entries to Mounts as to
\* CGroups, and a failing call has appended none.
C31_MountsPairedWithCGroups ==
    SetupOrRemove =>
        /\ Len(runConf.Mounts) = Len(runConf.CGroups)
        /\ last.err # "" => runConf.Mounts = <<>> /\ runConf.CGroups = <<>>

\* The same for Setup, and for Remove when every host file is a device node.
C31_PairedWhenNodesStat ==
    (\/ last.op = "setup"
     \/ last.op = "remove" /\ \A f \in last.pre : unixDeviceAttributes(f).err = "") =>
        /\ Len(runConf.Mounts) = Len(runConf.CGroups)
        /\ last.err # "" => runConf.Mounts = <<>> /\ runConf.CGroups = <<>>

\* A Remove that appended one unmount and one devices.deny entry.
C31_RemoveAppendedPair ==
    /\ last.op = "remove"
    /\ last.err = ""
    /\ Len(runConf.Mounts) = 1
    /\ Len(runConf.CGroups) = 1

\* C32: Remove leaves the devices directory as it is: the host files are
\* the same before and after every Remove, and a step that takes a file name
\* out of the directory is a DeleteFiles.
C32_RemoveKeepsDirectory ==
    [][/\ last'.op = "remove" => files' = files
       /\ (\E n \in FileNames(files) : n \notin FileNames(files')) => last'.op = "delete"]_vars

\* A Remove that asked for an unmount while the host file is still there.
C32_RemovedFileStillThere ==
    /\ last.op = "remove"
    /\ last.err = ""
    /\ runConf.Mounts # <<>>
    /\ \E f \in files : f.dev = PrefixOf(last.name)
    /\ files = last.pre

GivesOneNumber(m) == (m.major = "" /\ m.minor # "") \/ (m.major # "" /\ m.minor = "")

\* C33: a Create whose config gives exactly one of major and minor fails
\* with a validation error, before anything is done to the host filesystem:
\* the call does not get to the devices directory and the host files are as
\* they were.
C33_OneOfMajorMinorFailsEarly ==
    (last.op = "create" /\ GivesOneNumber(last.m)) =>
        /\ last.err \in {"Both major and minor must be supplied",
                         "property may not be set in a nested container"}
        /\ ~last.touched
        /\ files = last.pre

\* Such a Create outside a user namespace, over a directory with a file.
C33_RejectedForMissingMinor ==
    /\ last.op = "create"
    /\ GivesOneNumber(last.m)
    /\ last.err = "Both major and minor must be supplied"
    /\ files # {}

DeleteFailed == last.op = "delete" /\ last.err # ""

\* The entries DeleteFiles takes for its own, among the files it found.
OwnEntries(fs, deviceName, optPrefix) ==
    {f \in fs : HasPrefix(f.name, OurPrefix(TypePrefix, deviceName, optPrefix))}

\* C34: the first removal that fails ends the DeleteFiles call with that
\* error.  No entry after the failing one (in directory order) is removed,
\* the failing one is still there, and the entries of the device before it
\* are removed.
C34_DeleteStopsAtFirstFailure ==
    DeleteFailed =>
        \A f \in last.pre :
            f \in files <=>
                ~(/\ f \in OwnEntries(last.pre, last.name, last.opt)
                  /\ StrLess(f.name, last.failName))

\* A failed DeleteFiles that left an entry of its device after the failing one.
C34_LaterEntryKept ==
    /\ DeleteFailed
    /\ \E f \in OwnEntries(last.pre, last.name, last.opt) :
           StrLess(last.failName, f.name) /\ f \in files

\* A failed DeleteFiles that had removed an entry before the failing one.
C34_EarlierEntryGone ==
    /\ DeleteFailed
    /\ \E f \in OwnEntries(last.pre, last.name, last.opt) :
           StrLess(f.name, last.failName) /\ f \notin files

SetupOverSamePath ==
    /\ last.op = "setup"
    /\ \E f \in last.pre : f.dest = RelativeDestPath(last.m)

\* C35: the duplicate detection of Setup looks at the encoded relative
\* destination path alone.  A Setup whose destination path is that of an
\* existing host file is a duplicate and appends no mount and no
\* devices.allow entry, whatever the type and the major:minor of the two.
C35_SamePathIsDuplicate ==
    SetupOverSamePath =>
        /\ last.dupe
        /\ runConf.Mounts = <<>>
        /\ runConf.CGroups = <<>>

\* The same for destination paths without ".".
C35_SamePathIsDuplicateNoDot ==
    (SetupOverSamePath /\ NoDot(RelativeDestPath(last.m))) =>
        /\ last.dupe
        /\ runConf.Mounts = <<>>
        /\ runConf.CGroups = <<>>

\* A block device 1:2 set up as a duplicate of a char device 5:6.
C35_DuplicateOfOtherType ==
    /\ SetupOverSamePath
    /\ last.err = ""
    /\ last.dupe
    /\ last.m.type = "unix-block"
    /\ \E f \in last.pre : /\ f.dest = RelativeDestPath(last.m)
                           /\ f.typ = "c"
                           /\ f.major # ParseNum(last.m.major)
    /\ \E f \in files : f.typ = "b" /\ f.dest = RelativeDestPath(last.m)

(***************************************************************************)
(* Claims about the filter dispatch.                                       *)
(***************************************************************************)
Range(seq) == {seq[i] : i \in 1..Len(seq)}

Reverse(seq) == [i \in 1..Len(seq) |-> seq[Len(seq) + 1 - i]]

InstanceFields == {"ID", "Project", "Name", "Node", "Type"}

CertificateFields == {"ID", "Fingerprint", "Name", "Type"}

EntityOps == {"GetInstances", "GetInstanceURIs", "GetCertificates"}

FieldsOf(op) == IF op = "GetCertificates" THEN CertificateFields ELSE InstanceFields

StmtsOf(op) == IF op = "GetCertificates" THEN CertificateStmts ELSE InstanceStmts

BranchesOf(op) ==
    IF op = "GetCertificates" THEN CertificateBranches
    ELSE IF op = "GetInstanceURIs" THEN InstanceURIBranches
    ELSE InstanceBranches

\* The filter fields that are present, and the registered statements whose
\* WHERE columns are exactly those fields.
Present(f, op) == {k \in FieldsOf(op) : f[k] # Nil}

Candidates(f, op) ==
    {s \in DOMAIN StmtsOf(op) : Range(StmtsOf(op)[s]) = Present(f, op)}

\* C4 (as stated): for every subset of the filter fields GetMany selects
\* exactly one query.
C4_OneQueryForEverySubset ==
    picked.op \in {"GetInstances", "GetCertificates"} => picked.ran

\* C4 (amended): GetMany selects exactly one query, the registered one whose
\* columns are exactly the present fields, when there is such a statement,
\* and selects none otherwise.
C4_OneQueryIffRegistered ==
    picked.op \in {"GetInstances", "GetCertificates"} =>
        IF Candidates(filter, picked.op) = {}
        THEN ~picked.ran
        ELSE picked.ran /\ Candidates(filter, picked.op) = {picked.stmt}

C4_SelectedTwoFields ==
    /\ picked.op = "GetInstances"
    /\ picked.ran
    /\ Present(filter, picked.op) = {"Project", "Name"}

\* A list of device filters in which every field of every filter is absent.
DeviceAllAbsent(fl) ==
    \A i \in 1..Len(fl) :
        fl[i].Name = Nil /\ fl[i].Type = Nil /\ ~fl[i].Config.given

\* C5: a filter with every field absent selects the unfiltered select-all
\* query with no arguments and does not fail, for instances, certificates
\* and devices.
C5_AllAbsentSelectsAll ==
    /\ (picked.op \in EntityOps /\ Present(filter, picked.op) = {}) =>
            /\ picked.err = ""
            /\ picked.ran
            /\ StmtsOf(picked.op)[picked.stmt] = <<>>
            /\ picked.args = <<>>
    /\ (picked.op = "GetDevices" /\ DeviceAllAbsent(filter)) =>
            /\ picked.err = ""
            /\ picked.ran
            /\ picked.groups = <<>>
            /\ picked.args = <<>>

\* C6: when the present fields are those of no registered statement GetMany
\* fails with "No statement exists for the given Filter" and runs no query;
\* a query that is run has exactly the present fields as its columns, never
\* a subset or a superset of them.
C6_NoStatementNoFallback ==
    picked.op \in EntityOps =>
        /\ Candidates(filter, picked.op) = {} =>
                /\ picked.err = NoStatement
                /\ ~picked.ran
                /\ picked.stmt = "none"
        /\ picked.ran =>
                /\ picked.err = ""
                /\ Range(StmtsOf(picked.op)[picked.stmt]) = Present(filter, picked.op)
                /\ picked.args = [i \in 1..Len(StmtsOf(picked.op)[picked.stmt]) |->
                                     filter[StmtsOf(picked.op)[picked.stmt][i]]]

C6_Unregistered ==
    /\ picked.op = "GetInstances"
    /\ picked.err = NoStatement
    /\ Present(filter, picked.op) = {"ID", "Project"}

\* The branches of the chain of an operation whose condition holds.
Matching(f, op) ==
    {i \in 1..Len(BranchesOf(op)) : Matches(BranchesOf(op)[i], f)}

\* C7: for every filter at most one branch condition of the chain is true,
\* and the chain tested in the opposite order selects the same query.
C7_AtMostOneBranch ==
    picked.op \in EntityOps =>
        /\ Cardinality(Matching(filter, picked.op)) <= 1
        /\ picked = [op |-> picked.op] @@ Dispatch(Reverse(BranchesOf(picked.op)), filter)

C7_OneBranchTrue ==
    /\ picked.op = "GetInstanceURIs"
    /\ Cardinality(Matching(filter, picked.op)) = 1
    /\ Present(filter, picked.op) = {"Type", "Node"}

(***************************************************************************)
(* Claims about the entity store.                                          *)
(***************************************************************************)
\* The last call was a Create of an entity whose natural key was stored.
CreateOfStoredKey ==
    \/ /\ dbLast.op = "CreateInstance"
       /\ \E r \in dbLast.pre.instances :
             r.Project = dbLast.object.Project /\ r.Name = dbLast.object.Name
    \/ /\ dbLast.op = "CreateCertificate"
       /\ \E r \in dbLast.pre.certificates : r.Fingerprint = dbLast.object.Fingerprint

\* C8: a Create of an entity whose natural key is already stored (instances:
\* project and name, certificates: fingerprint) fails with the Conflict
\* condition and leaves every table as it was.
C8_SecondCreateConflict ==
    CreateOfStoredKey => dbLast.err.kind = "Conflict" /\ db = dbLast.pre

\* The last call was an Update or a Delete of a natural key that no row has.
MutationOfMissingKey ==
    \/ /\ dbLast.op \in {"UpdateInstance", "DeleteInstance"}
       /\ ~\E r \in dbLast.pre.instances :
             r.Project = dbLast.key[1] /\ r.Name = dbLast.key[2]
    \/ /\ dbLast.op \in {"UpdateCertificate", "DeleteCertificate"}
       /\ ~\E r \in dbLast.pre.certificates : r.Fingerprint = dbLast.key[1]

\* C9: an Update or a Delete of a natural key that matches no row returns
\* the Not-Found condition and leaves every table as it was.
C9_MissingKeyNotFound ==
    MutationOfMissingKey => dbLast.err.kind = "NotFound" /\ db = dbLast.pre

\* A device without the IDs the store assigns.
DeviceFields(dev) == [Name |-> dev.Name, Type |-> dev.Type, Config |-> dev.Config]

\* An instance without the IDs the store assigns.
InstanceFieldsOf(o) ==
    [Project |-> o.Project, Name |-> o.Name, Node |-> o.Node, Type |-> o.Type,
     Description |-> o.Description, Config |-> o.Config,
     Devices |-> {DeviceFields(dev) : dev \in o.Devices}, Profiles |-> o.Profiles]

RowsOfKey ==
    IF dbLast.op = "GetInstance"
    THEN {r \in dbLast.pre.instances :
              r.Project = dbLast.key[1] /\ r.Name = dbLast.key[2]}
    ELSE {r \in dbLast.pre.certificates : r.Fingerprint = dbLast.key[1]}

\* C11: GetOne returns the Not-Found condition when no row has the key, the
\* entity of the row when exactly one has it, and an internal fault (an
\* error that is neither Not-Found nor Conflict, and no entity) when more
\* than one has it; with exactly one row of the key it never returns the
\* more-than-one fault.
C11_GetOneByMatchCount ==
    dbLast.op \in {"GetInstance", "GetCertificate"} =>
        LET n == Cardinality(RowsOfKey)
        IN  /\ n = 0 => dbLast.err.kind = "NotFound" /\ dbLast.object = NoObject
            /\ n = 1 => /\ dbLast.err = NoError
                        /\ dbLast.object.ID = (CHOOSE r \in RowsOfKey : TRUE).ID
                        /\ dbLast.op = "GetInstance" =>
                              InstanceRow(dbLast.object.ID, dbLast.object) \in RowsOfKey
                        /\ dbLast.op = "GetCertificate" => dbLast.object \in RowsOfKey
            /\ n > 1 => /\ dbLast.err.kind = "error"
                        /\ dbLast.err.msg \in {"More than one \"instances\" entry matches",
                                               "More than one \"certificates\" entry matches"}
                        /\ dbLast.object = NoObject

C11_TwoRowsOfOneKey ==
    /\ dbLast.op = "GetInstance"
    /\ Cardinality(RowsOfKey) = 2
    /\ dbLast.err.kind = "error"

UpdatedID ==
    (CHOOSE r \in dbLast.pre.instances :
         r.Project = dbLast.key[1] /\ r.Name = dbLast.key[2]).ID

\* The child rows of the instances other than id: config rows, device rows
\* and the config rows of those devices.
ChildRowsOfOthers(d, id) ==
    LET devs == {r \in d.instances_devices : r.ref # id}
    IN  [config |-> {c \in d.instances_config : c.ref # id},
         devices |-> devs,
         devices_config |-> {c \in d.instances_devices_config :
                                 c.ref \in {r.ID : r \in devs}}]

RECURSIVE DeviceStatements(_)
DeviceStatements(order) ==
    IF order = <<>> THEN <<>>
    ELSE <<<<"INSERT", "instances_devices">>, <<"LastInsertId", "instances_devices">>>>
         \o [i \in 1..Cardinality(Head(order).Config) |->
                <<"INSERT", "instances_devices_config">>]
         \o DeviceStatements(Tail(order))

\* Existence check, parent row, config rows, devices, association table.
StepsInOrder(object, order) ==
    <<<<"SELECT", "instances">>, <<"INSERT", "instances">>, <<"LastInsertId", "instances">>>>
    \o [i \in 1..Cardinality(object.Config) |-> <<"INSERT", "instances_config">>]
    \o DeviceStatements(order)
    \o <<<<"UPDATE", "instances_profiles">>>>

\* The statements of the last call that were carried out: all but a refused
\* last one.
Done ==
    IF dbLast.failAt = Len(dbLast.trace) THEN SubSeq(dbLast.trace, 1, Len(dbLast.trace) - 1)
    ELSE dbLast.trace

Inserts(table) == Cardinality({i \in 1..Len(Done) : Done[i] = <<"INSERT", table>>})

Added(table) == db[table] \ dbLast.pre[table]

\* C39: CreateInstance issues its statements in the order existence check,
\* parent row, config rows, devices (each with its config rows before the
\* next device), association table.  The statement that fails is the last
\* one issued and the call returns an error at once; the call succeeds only
\* when every statement was issued and none failed.  The function itself
\* issues no BEGIN, COMMIT or ROLLBACK: at its return the transaction holds
\* exactly the rows of the statements carried out, and a device inserted
\* before the last one has its whole config.
C39_CreateStepsInOrder ==
    dbLast.op = "CreateInstance" =>
        LET t == dbLast.trace
            all == StepsInOrder(dbLast.object, dbLast.order)
            new == Added("instances_devices")
        IN  /\ Len(t) \in 1..Len(all)
            /\ t = SubSeq(all, 1, Len(t))
            /\ \A i \in 1..Len(t) : t[i][1] \in {"SELECT", "INSERT", "LastInsertId", "UPDATE"}
            /\ dbLast.failAt \in 1..Len(t) => dbLast.err # NoError /\ Len(t) = dbLast.failAt
            /\ dbLast.err = NoError <=> (t = all /\ dbLast.failAt \notin 1..Len(all))
            /\ dbLast.err = NoError =>
                   db = ClusterTx_CreateInstance(dbLast.pre, dbLast.object, dbLast.order).db
            /\ \A table \in {"instances", "instances_config", "instances_devices",
                             "instances_devices_config"} :
                   /\ dbLast.pre[table] \subseteq db[table]
                   /\ Cardinality(Added(table)) = Inserts(table)
            /\ (db.instances_profiles # dbLast.pre.instances_profiles)
                   => Done[Len(Done)] = <<"UPDATE", "instances_profiles">>
            /\ \A r \in new :
                   (\E q \in new : q.ID > r.ID) =>
                       \E dev \in dbLast.object.Devices :
                           /\ dev.Name = r.Name
                           /\ GetConfig(db.instances_devices_config, r.ID) = dev.Config

\* The config row of the second device is refused: the call has inserted
\* the parent row, its config, the first device with its config, the second
\* device, and returns the error.
C39_SecondDeviceConfigRefused ==
    /\ dbLast.op = "CreateInstance"
    /\ dbLast.err # NoError
    /\ dbLast.failAt = Len(dbLast.trace)
    /\ dbLast.trace[dbLast.failAt] = <<"INSERT", "instances_devices_config">>
    /\ Cardinality(Added("instances_devices")) = 2
    /\ Cardinality(Added("instances_devices_config")) = 1
    /\ Cardinality(Added("instances_config")) = 2
    /\ db.instances_profiles = dbLast.pre.instances_profiles

(***************************************************************************)
(* Claims about the warnings.                                              *)
(***************************************************************************)
\* The warnings that matched the tuple of the last Upsert, before the call.
UpsertMatches ==
    cluster_GetWarnings(warnLast.pre.rows, warnLast.args)

\* The last call was an Upsert that got as far as the query of the tuple.
UpsertQueried ==
    /\ warnLast.op = "UpsertWarning"
    /\ \E i \in 1..Len(warnLast.trace) : warnLast.trace[i] = "GetWarnings"

\* The last Upsert matched one warning, and that one was Resolved.
UpsertOfResolved ==
    /\ UpsertQueried
    /\ Cardinality(UpsertMatches) = 1
    /\ \A r \in UpsertMatches : r.Status = StatusResolved

\* C14: an Upsert that matches exactly one warning of its tuple (type code,
\* node, project, entity type, entity ID), that warning being Resolved,
\* succeeds and leaves that warning with status New, its count one higher
\* and the new message as last message; no other warning is touched.
C14_ResolvedBecomesNew ==
    UpsertOfResolved =>
        /\ warnLast.err = NoError
        /\ \A r \in UpsertMatches :
              \E n \in warnings.rows :
                  /\ n.UUID = r.UUID
                  /\ n.Status = StatusNew
                  /\ n.Count = r.Count + 1
                  /\ n.LastMessage = warnLast.message
                  /\ warnings.rows \ {n} = warnLast.pre.rows \ {r}

\* A warning that was resolved comes back with another message.
C14_ResolvedSeenAgain ==
    /\ UpsertOfResolved
    /\ \E r \in UpsertMatches : r.UpdatedDate > 0 /\ r.LastMessage # warnLast.message

\* The arguments of the last Upsert name a known type, an entity that
\* resolves (or none), and a node and a project that exist (or none).
UpsertArgsValid ==
    /\ warnLast.args.TypeCode \in TypeNames
    /\ warnLast.args.EntityType # "" =>
          <<warnLast.args.EntityType, warnLast.args.EntityID>> \in Entities
    /\ warnLast.args.Node \in Nodes \cup {""}
    /\ warnLast.args.Project \in Projects \cup {""}

C16_ManyMatchesFault ==
    (UpsertQueried /\ Cardinality(UpsertMatches) > 1) =>
        /\ warnLast.err = Errorf("More than one warnings (%d) match the criteria")
        /\ warnings = warnLast.pre
        /\ warnLast.trace[Len(warnLast.trace)] = "GetWarnings"

C16_TwoWarningsOfOneTuple ==
    /\ UpsertQueried
    /\ Cardinality(UpsertMatches) = 2
    /\ \E r \in UpsertMatches : r.Status = StatusResolved

\* C17: an Upsert with a type code that is not registered fails, leaves the
\* warnings as they were, and reads and writes nothing: no lookup of the
\* entity, the node or the project, no query of the warnings.
C17_UnknownTypeRejectedFirst ==
    (warnLast.op = "UpsertWarning" /\ warnLast.args.TypeCode \notin TypeNames) =>
        /\ warnLast.err # NoError
        /\ warnings = warnLast.pre
        /\ warnLast.trace = <<>>

\* The unknown type comes with an entity, a node and a project that exist,
\* while warnings are stored.
C17_UnknownTypeOfKnownEntity ==
    /\ warnLast.op = "UpsertWarning"
    /\ warnLast.args.TypeCode \notin TypeNames
    /\ warnLast.args.EntityType # ""
    /\ warnLast.args.Node \in Nodes
    /\ warnLast.args.Project \in Projects
    /\ warnLast.pre.rows # {}

\* Step a comes before step b in the trace of the last call.
Precedes(a, b) ==
    \E i, j \in 1..Len(warnLast.trace) :
        i < j /\ warnLast.trace[i] = a /\ warnLast.trace[j] = b

Inserted == \E i \in 1..Len(warnLast.trace) : warnLast.trace[i] = "INSERT"

\* C18 as stated: with zero matches the warning is inserted only after the
\* node and the project were both looked up, and if the node or the project
\* is not one that exists the call fails and inserts nothing.
C18_InsertAfterBothValidated ==
    (UpsertQueried /\ UpsertMatches = {}) =>
        /\ Inserted => Precedes("GetNodeByName", "INSERT")
                       /\ Precedes("GetProjectNames", "INSERT")
        /\ (warnLast.args.Node \notin Nodes \/ warnLast.args.Project \notin Projects) =>
              warnLast.err # NoError /\ warnings = warnLast.pre

\* C18, amended: with zero matches the warning is inserted only after every
\* node and project that is named (non-empty) was looked up, and if a named
\* node or a named project does not exist the call fails and inserts
\* nothing; an empty node or project name is not looked up and is stored as
\* no node, no project.
C18_InsertAfterNamedValidated ==
    (UpsertQueried /\ UpsertMatches = {}) =>
        /\ Inserted =>
              /\ warnLast.args.Node # "" => Precedes("GetNodeByName", "INSERT")
              /\ warnLast.args.Project # "" => Precedes("GetProjectNames", "INSERT")
        /\ (\/ warnLast.args.Node \notin Nodes \cup {""}
            \/ warnLast.args.Project \notin Projects \cup {""}) =>
              warnLast.err # NoError /\ warnings = warnLast.pre

\* A new tuple names a project that does not exist.
C18_UnknownProjectRefused ==
    /\ UpsertQueried
    /\ UpsertMatches = {}
    /\ warnLast.args.Node \in Nodes
    /\ warnLast.args.Project \notin Projects \cup {""}
    /\ warnLast.err # NoError

SameTuple(x, y) ==
    /\ x.TypeCode = y.TypeCode
    /\ x.Node = y.Node
    /\ x.Project = y.Project
    /\ x.EntityType = y.EntityType
    /\ x.EntityID = y.EntityID

\* C36: whatever Upserts have run, one after the other, no two warnings
\* have the same tuple (type code, node, project, entity type, entity ID),
\* and no Upsert has failed for more than one match.
C36_OneWarningPerTuple ==
    /\ \A x, y \in warnings.rows : SameTuple(x, y) => x = y
    /\ warnLast.op = "UpsertWarning" =>
           /\ Cardinality(UpsertMatches) <= 1
           /\ warnLast.err # Errorf("More than one warnings (%d) match the criteria")

\* Two tuples have a warning each, and one of them was upserted again.
C36_TwoTuplesOneSeenTwice ==
    /\ Cardinality(warnings.rows) = 2
    /\ \E r \in warnings.rows : r.Count = 2
    /\ warnLast.op = "UpsertWarning"
    /\ warnLast.err = NoError

\* The warning of UUID u in the table before the last call.
Before(u) == CHOOSE r \in warnLast.pre.rows : r.UUID = u

\* C37: the count of a warning is at least 1; a new warning has count 1,
\* every successful Upsert that matched a warning has raised its count by
\* one and no other step changes a count; and UpdateWarningStatus changes
\* the status and the updated date of its warning and nothing else.
C37_CountCountsUpserts ==
    /\ \A r \in warnings.rows : r.Count >= 1
    /\ warnLast.op # "none" =>
           \A r \in warnings.rows :
               IF \E p \in warnLast.pre.rows : p.UUID = r.UUID
               THEN r.Count = Before(r.UUID).Count +
                        (IF /\ warnLast.op = "UpsertWarning"
                            /\ warnLast.err = NoError
                            /\ Before(r.UUID) \in UpsertMatches
                         THEN 1 ELSE 0)
               ELSE r.Count = 1
    /\ warnLast.op = "UpdateWarningStatus" =>
           /\ {r.UUID : r \in warnings.rows} = {r.UUID : r \in warnLast.pre.rows}
           /\ \A r \in warnings.rows :
                  /\ r.UUID # warnLast.UUID => r = Before(r.UUID)
                  /\ [r EXCEPT !.Status = Before(r.UUID).Status,
                               !.UpdatedDate = Before(r.UUID).UpdatedDate] = Before(r.UUID)

\* A warning seen three times.
C37_SeenThreeTimes ==
    /\ warnLast.op = "UpsertWarning"
    /\ \E r \in warnings.rows : r.Count = 3

\* A warning seen twice is acknowledged.
C37_AcknowledgedAfterTwo ==
    /\ warnLast.op = "UpdateWarningStatus"
    /\ warnLast.err = NoError
    /\ \E r \in warnings.rows :
           r.UUID = warnLast.UUID /\ r.Count = 2 /\ r.Status = StatusAcknowledged

\* The last Upsert matched one warning, and that one was not Resolved.
UpsertOfUnresolved ==
    /\ UpsertQueried
    /\ Cardinality(UpsertMatches) = 1
    /\ \A r \in UpsertMatches : r.Status # StatusResolved

\* C38: an Upsert that matches a warning that is not Resolved leaves its
\* status as it is (Acknowledged stays Acknowledged) and sets the message
\* and the last-seen date and raises the count; and no Upsert makes a
\* warning Resolved.
C38_UpsertKeepsStatus ==
    /\ UpsertOfUnresolved =>
           /\ warnLast.err = NoError
           /\ \A r \in UpsertMatches :
                  \E n \in warnings.rows :
                      /\ n.UUID = r.UUID
                      /\ n.Status = r.Status
                      /\ n.LastMessage = warnLast.message
                      /\ n.LastSeenDate > warnLast.pre.now
                      /\ n.Count = r.Count + 1
    /\ warnLast.op = "UpsertWarning" =>
           \A n \in warnings.rows : n.Status = StatusResolved => n \in warnLast.pre.rows

\* An acknowledged warning is seen again, with another message.
C38_AcknowledgedSeenAgain ==
    /\ UpsertOfUnresolved
    /\ \E r \in UpsertMatches : r.Status = StatusAcknowledged /\ r.LastMessage # warnLast.message
    /\ \E n \in warnings.rows : n.Status = StatusAcknowledged /\ n.Count = 2

(***************************************************************************)
(* Claims about the static DHCP allocations.                               *)
(***************************************************************************)
\* strings.Join for a one-character separator.
RECURSIVE Join(_, _)
Join(parts, sep) ==
    IF Len(parts) = 0 THEN <<>>
    ELSE IF Len(parts) = 1 THEN parts[1]
    ELSE parts[1] \o <<sep>> \o Join(Tail(parts), sep)

\* The last call was a Write that had something to append to the MAC and
\* succeeded.
WroteEntry ==
    /\ dhcpLast.op = "UpdateStaticEntry"
    /\ dhcpLast.err = NoError
    /\ \/ dhcpLast.ipv4Address # <<>>
       \/ dhcpLast.ipv6Address # <<>>
       \/ MapGet(dhcpLast.netConfig, "dns.mode") \in {"", "managed"}

\* The fields the line of the last Write is to have: the MAC in lower case
\* (both MACs of the model are aa:bb:cc:dd:ee:ff), the IPv4 address if given,
\* the IPv6 address in brackets if given, the host name if the DNS mode is
\* unset or "managed".
FieldsToWrite ==
    <<<<"aa", ":", "bb", ":", "cc", ":", "dd", ":", "ee", ":", "ff">>>>
    \o (IF dhcpLast.ipv4Address # <<>> THEN <<dhcpLast.ipv4Address>> ELSE <<>>)
    \o (IF dhcpLast.ipv6Address # <<>>
        THEN <<<<"[">> \o dhcpLast.ipv6Address \o <<"]">>>> ELSE <<>>)
    \o (IF MapGet(dhcpLast.netConfig, "dns.mode") \in {"", "managed"}
        THEN <<project_DNS(dhcpLast.projectName, InstanceName)>> ELSE <<>>)

\* The example of the specification: MAC aa:bb:cc:dd:ee:ff, IPv4 10.0.0.5,
\* no IPv6, managed mode, host name web1.
WroteExample ==
    /\ WroteEntry
    /\ dhcpLast.projectName = <<"default">>
    /\ dhcpLast.ipv4Address = <<"10", ".", "0", ".", "0", ".", "5">>
    /\ dhcpLast.ipv6Address = <<>>
    /\ MapGet(dhcpLast.netConfig, "dns.mode") = "managed"

\* C19: a Write that appends something to the MAC leaves one file for the
\* device whose content is one line: the MAC in lower case, then the IPv4
\* address if given, then the IPv6 address in brackets if given, then the
\* host name if and only if the DNS mode is unset or "managed", separated by
\* commas, and a newline at the end; the example gives
\* aa:bb:cc:dd:ee:ff,10.0.0.5,web1.
C19_OneLineInOrder ==
    WroteEntry =>
        /\ Cardinality({f \in hosts : f.name = dhcpLast.name}) = 1
        /\ \A f \in hosts :
              f.name = dhcpLast.name =>
                  /\ f.content = Join(FieldsToWrite, ",") \o <<NewLine>>
                  /\ Count(f.content, NewLine) = 1
                  /\ WroteExample =>
                        f.content = <<"aa", ":", "bb", ":", "cc", ":", "dd", ":", "ee", ":",
                                      "ff", ",", "10", ".", "0", ".", "0", ".", "5", ",",
                                      "web1", NewLine>>

\* The example, with the MAC given in upper case.
C19_ExampleWritten ==
    /\ WroteExample
    /\ dhcpLast.hwaddr # ToLower(dhcpLast.hwaddr)

\* C20: the file of a Write that appended something to the MAC reads back
\* without failure as the written MAC, the written IPv4 address (none when
\* none was given) and the written IPv6 address (none when none was given).
C20_WriteReadRoundTrip ==
    WroteEntry =>
        LET r == DHCPStaticAllocation(hosts, dhcpLast.name)
        IN  /\ r.err = NoError
            /\ r.mac = ParseMAC(dhcpLast.hwaddr).mac
            /\ r.IPv4.IP = IF dhcpLast.ipv4Address = <<>> THEN NilIP
                           ELSE To4(ParseIP(dhcpLast.ipv4Address))
            /\ r.IPv6.IP = IF dhcpLast.ipv6Address = <<>> THEN NilIP
                           ELSE ParseIP(dhcpLast.ipv6Address)

\* The last call was a Write with no IPv4, no IPv6 and a DNS mode that is
\* neither unset nor "managed".
WroteNothingToAppend ==
    /\ dhcpLast.op = "UpdateStaticEntry"
    /\ dhcpLast.ipv4Address = <<>>
    /\ dhcpLast.ipv6Address = <<>>
    /\ MapGet(dhcpLast.netConfig, "dns.mode") \notin {"", "managed"}

\* C21: a Write that has nothing to append to the MAC returns success and
\* leaves the directory as it was: no file is created and no file, that of
\* the device included, is changed or removed.
C21_NothingAppendedNoWrite ==
    WroteNothingToAppend => dhcpLast.err = NoError /\ hosts = dhcpLast.pre

\* Nothing to append, while the device and another one have a file.
C21_NoWriteOverExistingFile ==
    /\ WroteNothingToAppend
    /\ \E f \in dhcpLast.pre : f.name = dhcpLast.name
    /\ \E f \in dhcpLast.pre : f.name # dhcpLast.name

\* The static allocations of the files of the directory: those of IPv4
\* addresses and those of IPv6 addresses.
StaticIPv4s ==
    {DHCPStaticAllocation(dhcpLast.pre, f.name).IPv4 : f \in dhcpLast.pre}
        \ {a \in {DHCPStaticAllocation(dhcpLast.pre, f.name).IPv4 : f \in dhcpLast.pre} :
               a.IP = NilIP}

StaticIPv6s ==
    {DHCPStaticAllocation(dhcpLast.pre, f.name).IPv6 : f \in dhcpLast.pre}
        \ {a \in {DHCPStaticAllocation(dhcpLast.pre, f.name).IPv6 : f \in dhcpLast.pre} :
               a.IP = NilIP}

\* The last call was a ReadAll that returned its maps.
ReadAllReturned == dhcpLast.op = "DHCPAllAllocations" /\ dhcpLast.err = NoError

\* In the maps, every IP of a static allocation is mapped to a static
\* allocation of that IP.
StaticsKept ==
    /\ \A a \in StaticIPv4s :
          /\ MapAt(dhcpLast.IPv4s, a.IP.addr).StaticFileName # <<>>
          /\ MapAt(dhcpLast.IPv4s, a.IP.addr) \in StaticIPv4s
    /\ \A a \in StaticIPv6s :
          /\ MapAt(dhcpLast.IPv6s, a.IP.addr).StaticFileName # <<>>
          /\ MapAt(dhcpLast.IPv6s, a.IP.addr) \in StaticIPv6s

\* C22: in the maps ReadAll returns, every IP address that a static file
\* allocates is mapped to a static allocation of it (with the name of the
\* static file), whatever the lease file holds for that IP and in whatever
\* order its lines are.
C22_StaticWins == ReadAllReturned => StaticsKept

\* The same when the listing of the directory succeeded.
C22_StaticWinsWhenListed ==
    (ReadAllReturned /\ dhcpLast.readDir = "ok") => StaticsKept

\* The lease file has a lease of a statically allocated IPv4 address after a
\* lease of another address.
C22_LeaseOfStaticIP ==
    /\ ReadAllReturned
    /\ dhcpLast.readDir = "ok"
    /\ \E a \in StaticIPv4s : a.IP.addr = "10.0.0.5"
    /\ Len(ScanLines(dhcpLast.leases.content)) = 2
    /\ Len(Fields(ScanLines(dhcpLast.leases.content)[2])) = 5
    /\ Fields(ScanLines(dhcpLast.leases.content)[2])[3] = <<"10", ".", "0", ".", "0", ".", "5">>
    /\ Cardinality(dhcpLast.IPv4s) = 2

(***************************************************************************)
(* Claims about the cluster configuration.                                 *)
(***************************************************************************)
Replaced == confLast.op = "Replace" /\ confLast.err = NoError

Patched == confLast.op = "Patch" /\ confLast.err = NoError

SharedDest == RelativeDestPath(procs[CHOOSE n \in DOMAIN procs : TRUE].m)

Unmounts == SelectSeq(runConf.Mounts, LAMBDA e : e.DevSource = <<>>)

Denies == SelectSeq(runConf.CGroups, LAMBDA e : e.Key = "devices.deny")

MountsOfShared == SelectSeq(runConf.Mounts, LAMBDA e : e.DevSource # <<>> /\ e.TargetPath = SharedDest)

Allows == SelectSeq(runConf.CGroups, LAMBDA e : e.Key = "devices.allow")

BothDeleted == \A n \in DOMAIN procs : procs[n].pc = "deleted"

\* C25: two devices whose host files encode the same destination path are
\* taken down, each Remove before its own DeleteFiles, in any order of the
\* four calls: the two Removes together have appended exactly one unmount
\* entry, for the shared path, and exactly one devices.deny entry.
C25_OneUnmountOneDeny ==
    BothDeleted =>
        /\ Len(Unmounts) = 1
        /\ Unmounts[1].TargetPath = SharedDest
        /\ Len(Denies) = 1

\* Never more than one, when neither name is a prefix of the other and
\* the path holds no ".".
C25_AtMostOneUnmount ==
    (/\ BothDeleted
     /\ NoDot(SharedDest)
     /\ \A n \in DOMAIN procs : \A k \in DOMAIN procs \ {n} : ~HasPrefix(k, n)) =>
        /\ Len(Unmounts) <= 1
        /\ Len(Denies) = Len(Unmounts)
        /\ Unmounts # <<>> => Unmounts[1].TargetPath = SharedDest

\* Both devices taken down and nothing unmounted.
C25_NothingUnmounted == BothDeleted /\ Unmounts = <<>> /\ Denies = <<>>

BothAppended == Len(MountsOfShared) = 2 /\ Len(Allows) = 2

\* C27: two concurrent Setups of sibling devices with the same destination
\* path can both append a mount and a devices.allow entry when the callers
\* do not lock; when every Setup runs under the lock of the devices
\* directory they never both do.
C27_LockedSetupMountsOnce == lock.on => ~BothAppended

\* The same for destination paths without ".".
C27_LockedSetupMountsOnceNoDot == (lock.on /\ NoDot(SharedDest)) => ~BothAppended

\* The race: no lock, both scans before either node, both appended.
C27_RaceBothAppended == ~lock.on /\ NoDot(SharedDest) /\ BothAppended

\* Under the lock the second Setup found the first one's node.
C27_LockedSecondIsDupe ==
    /\ lock.on
    /\ \A n \in DOMAIN procs : procs[n].pc = "attached"
    /\ Len(MountsOfShared) = 1

(***************************************************************************)
(* Claims about concurrent writers of the static DHCP allocations.         *)
(***************************************************************************)
InFileStep == {n \in Writers : procs[n].pc \in {"os.WriteFile", "os.Remove"}}

C40_LockedWritersSerialized ==
    lock.on =>
        /\ Cardinality(InFileStep) <= 1
        /\ \A n \in InFileStep : lock.holder = n
        /\ (\A n \in Writers : procs[n].pc = "new") <=> lock.holder = <<>>

\* Under the callers' lock one writer is in os.WriteFile and the other has
\* not started.
C40_LockedOneWrites ==
    /\ lock.on
    /\ procs[<<"w1">>].pc = "os.WriteFile"
    /\ lock.holder = <<"w1">>
    /\ procs[<<"w2">>].pc = "new"

\* Without it one goroutine is in os.WriteFile and the other in os.Remove,
\* on the same file.
C40_WriteDuringRemove ==
    /\ ~lock.on
    /\ procs[<<"w1">>].pc = "os.WriteFile"
    /\ procs[<<"w2">>].pc = "os.Remove"
    /\ procs[<<"w1">>].projectName = procs[<<"w2">>].projectName

====
